---- MODULE Spec2Model ----
(***************************************************************************)
(* Segmentation-to-detection reconciliation of labelit                     *)
(* (src/modules/segmentationOps.py, class SegmentationOps).                *)
(*                                                                         *)
(* Python values are represented as follows.                               *)
(*   dict            a function with string keys; a key that the dict does *)
(*                   not hold is not in its DOMAIN                         *)
(*   text            a sequence of lines, as split('\n') cuts it; the      *)
(*                   empty string is the empty sequence                    *)
(*   line            the sequence of parts that strip().split(' ') cuts    *)
(*                   from it; two adjacent spaces give an empty part ""    *)
(*                   and a line of white space only is <<"">>              *)
(*   points_string   ' '.join(parts): the sequence of the joined parts     *)
(*   bbox string     "x1,y1,x2,y2" is the sequence of its comma-separated  *)
(*                   numbers; "" is the empty sequence                     *)
(*   float ratio     a reduced fraction <<numerator, denominator>>         *)
(***************************************************************************)
EXTENDS Integers, Sequences, FiniteSets, TLC

VARIABLES
    image_data,         \* the ImageRecord, a dict that the calls mutate in place
    pc,                 \* "idle", or how the last call ended: "returned", "raised"
    called,             \* the method of the last call, "" when idle
    segmentation_text,  \* the text argument of the call
    boxes,              \* the two box arguments of the call, <<>> when it has none
    returned,           \* <<v>> when the call returned v, otherwise <<>>
    args,               \* the other arguments of the call, <<>> when it has none
    DIATOMS_DATA,       \* the list of that name of app.py: one dict per image
    PAPER_JSON_FILES,   \* the list of that name of app.py: one dict per paper
    blob,               \* the JSON last uploaded to storage, <<>> before any
    sessions            \* the calls of process_image_segmentations in progress
                        \* side by side, each on a record of its own

\* the state of app.py and of the calls in progress side by side
appvars == <<DIATOMS_DATA, PAPER_JSON_FILES, blob, sessions>>

vars == <<image_data, pc, called, segmentation_text, boxes, returned, args, appvars>>

(***************************************************************************)
(* Bounds of the explored inputs.                                          *)
(***************************************************************************)
MaxLines == 2
MaxDet == 2
MaxCoord == 3
MaxPixel == 7
MaxPapers == 2

\* the bits of the mantissa of a float; a Python float has 53
MantissaBits == 3

\* the values of 'index' that the entries of a record take
EntryIndices == {0, 1}

(***************************************************************************)
(* Program constants.                                                      *)
(***************************************************************************)
DefaultWidth == 1024
DefaultHeight == 768
MinParts == 3

\* dict assignment d[k] = v
Set(d, k, v) == (k :> v) @@ d

\* dict.get(k, default)
Get(d, k, default) == IF k \in DOMAIN d THEN d[k] ELSE default

(***************************************************************************)
(* Numeric literals.                                                       *)
(***************************************************************************)
FloatLiterals == {"0", "0.25", "0.5", "1", "4"}

IntLiterals == {"0", "1", "4"}

\* float(s) succeeds
IsFloat(s) == s \in FloatLiterals

\* int(s) succeeds
IsInt(s) == s \in IntLiterals

\* float(s), as the fraction <<numerator, denominator>>
FloatOf(s) ==
    CASE s = "0" -> <<0, 1>>
      [] s = "0.25" -> <<1, 4>>
      [] s = "0.5" -> <<1, 2>>
      [] s = "1" -> <<1, 1>>
      [] s = "4" -> <<4, 1>>

\* int(s)
IntOf(s) ==
    CASE s = "0" -> 0
      [] s = "1" -> 1
      [] s = "4" -> 4

\* round(p / q) for p >= 0, q > 0: Python rounds halves to the even integer
Round(p, q) ==
    LET f == p \div q
        r == p % q
    IN  IF 2 * r < q THEN f
        ELSE IF 2 * r > q THEN f + 1
        ELSE IF f % 2 = 0 THEN f ELSE f + 1

RECURSIVE GCD(_, _)
GCD(a, b) == IF b = 0 THEN a ELSE GCD(b, a % b)

\* the float n / d, d > 0, n >= 0
Ratio(n, d) == LET g == GCD(n, d) IN <<n \div g, d \div g>>

Zero == <<0, 1>>
Half == <<1, 2>>

RatioGt(a, b) == a[1] * b[2] > b[1] * a[2]
RatioGe(a, b) == a[1] * b[2] >= b[1] * a[2]

\* float('nan'), which float() reads from a field "nan" or "NaN" of a bbox
\* string; it stands outside the coordinates, and every comparison with it
\* is false
NaN == -1

\* min(a, b) and max(a, b) of Python: b when b < a (b > a), else a
Min2(a, b) == IF a # NaN /\ b # NaN /\ b < a THEN b ELSE a
Max2(a, b) == IF a # NaN /\ b # NaN /\ b > a THEN b ELSE a

SeqMin(s) == CHOOSE m \in {s[i] : i \in DOMAIN s} : \A i \in DOMAIN s : m <= s[i]
SeqMax(s) == CHOOSE m \in {s[i] : i \in DOMAIN s} : \A i \in DOMAIN s : m >= s[i]

\* str.split(): the parts between runs of white space, none of them empty
Split(points_string) == SelectSeq(points_string, LAMBDA p : p # "")

(***************************************************************************)
(* normalize_coordinates and denormalize_coordinates.  Their arguments are *)
(* Python values of any type: an int n, a float n / d, the str 'a' * n, or *)
(* None.  A float operation gives the float nearest to the exact result,   *)
(* halves going to the even mantissa.                                      *)
(***************************************************************************)
PyInt(n) == [type |-> "int", n |-> n, d |-> 1]
PyFloat(n, d) == [type |-> "float", n |-> Ratio(n, d)[1], d |-> Ratio(n, d)[2]]
PyStr(n) == [type |-> "str", n |-> n, d |-> 1]
PyNone == [type |-> "NoneType", n |-> 0, d |-> 1]

IsNumber(v) == v.type \in {"int", "float"}

Exponents == (0 - 4 * MantissaBits)..(4 * MantissaBits)

\* n / d as m / 2^-e (e < 0) or m / 2^e downwards (e >= 0), as the pair
\* <<numerator, denominator>> of the mantissa at exponent e
Scaled(n, d, e) == IF e >= 0 THEN <<n, d * 2^e>> ELSE <<n * 2^(0 - e), d>>

\* the exponent at which the mantissa of n / d > 0 has MantissaBits bits
ExponentOf(n, d) ==
    CHOOSE e \in Exponents :
        /\ 2^(MantissaBits - 1) * Scaled(n, d, e)[2] <= Scaled(n, d, e)[1]
        /\ Scaled(n, d, e)[1] < 2^MantissaBits * Scaled(n, d, e)[2]

\* the float of mantissa m at exponent e
FloatAt(m, e) == IF e >= 0 THEN PyFloat(m * 2^e, 1) ELSE PyFloat(m, 2^(0 - e))

\* the float nearest to n / d, n >= 0, d > 0, at exponent e
NearestAt(n, d, e) == FloatAt(Round(Scaled(n, d, e)[1], Scaled(n, d, e)[2]), e)

\* the float nearest to n / d, n >= 0, d > 0
RoundToFloat(n, d) == IF n = 0 THEN PyFloat(0, 1) ELSE NearestAt(n, d, ExponentOf(n, d))

\* a / b: TypeError unless both are numbers, ZeroDivisionError for b = 0
TrueDiv(a, b) ==
    IF ~(IsNumber(a) /\ IsNumber(b))
    THEN [exc |-> "TypeError", v |-> PyNone]
    ELSE IF b.n = 0
    THEN [exc |-> "ZeroDivisionError", v |-> PyNone]
    ELSE [exc |-> "", v |-> RoundToFloat(a.n * b.d, a.d * b.n)]

\* a * b: the product of two numbers, an int when both are ints; a str
\* times an int is the str repeated; anything else is a TypeError
Mul(a, b) ==
    IF IsNumber(a) /\ IsNumber(b)
    THEN [exc |-> "",
          v |-> IF a.type = "int" /\ b.type = "int"
                THEN PyInt(a.n * b.n)
                ELSE RoundToFloat(a.n * b.n, a.d * b.d)]
    ELSE IF (a.type = "str" /\ b.type = "int") \/ (a.type = "int" /\ b.type = "str")
    THEN [exc |-> "", v |-> PyStr(a.n * b.n)]
    ELSE [exc |-> "TypeError", v |-> PyNone]

\* lines 17-19 and 29-31: the handlers return (0.0, 0.0)
CoordExceptHandler == <<PyFloat(0, 1), PyFloat(0, 1)>>

\* lines 13-16: the tuple, unless one of the two operations raised
CoordTuple(a, b) == IF a.exc # "" \/ b.exc # "" THEN CoordExceptHandler ELSE <<a.v, b.v>>

\* a variant that divides both coordinates by the width
normalize_coordinates_ByWidth(x, y, image_width, image_height) ==
    CoordTuple(TrueDiv(x, image_width), TrueDiv(y, image_width))

normalize_coordinates(x, y, image_width, image_height) ==
    CoordTuple(TrueDiv(x, image_width), TrueDiv(y, image_height))

denormalize_coordinates(norm_x, norm_y, image_width, image_height) ==
    CoordTuple(Mul(norm_x, image_width), Mul(norm_y, image_height))

(***************************************************************************)
(* parse_segmentation_line: (label, points_string), label None when the    *)
(* line is rejected.                                                       *)
(***************************************************************************)
None == [none |-> TRUE]

\* a variant that lets the ValueError of int() through
LineExceptHandler_Reraise(line) ==
    [label |-> None, points_string |-> <<>>, raised |-> TRUE]

\* lines 45-47: the handler of the try block of parse_segmentation_line
LineExceptHandler(line) ==
    [label |-> None, points_string |-> <<>>, raised |-> FALSE]

parse_segmentation_line(line) ==
    IF Len(line) < MinParts
    THEN [label |-> None, points_string |-> <<>>, raised |-> FALSE]
    ELSE IF ~IsInt(line[1])
    THEN LineExceptHandler(line)
    ELSE [label |-> [int |-> IntOf(line[1])], points_string |-> Tail(line),
          raised |-> FALSE]

(***************************************************************************)
(* parse_segmentation_file                                                 *)
(***************************************************************************)
Blank == <<"">>

RECURSIVE LStrip(_)
LStrip(lines) ==
    IF lines # <<>> /\ Head(lines) = Blank THEN LStrip(Tail(lines)) ELSE lines

RECURSIVE RStrip(_)
RStrip(lines) ==
    IF lines # <<>> /\ lines[Len(lines)] = Blank
    THEN RStrip(SubSeq(lines, 1, Len(lines) - 1))
    ELSE lines

\* file_content.strip().split('\n')
StripLines(file_content) ==
    LET s == RStrip(LStrip(file_content))
    IN  IF s = <<>> THEN <<Blank>> ELSE s

\* a variant that counts the parsed lines only
LineIndex_Dense(lines, pos) ==
    Cardinality({q \in 1..(pos - 1) : parse_segmentation_line(lines[q]).label # None})

\* the value of 'index' given to the line at 1-based position pos
LineIndex(lines, pos) == pos - 1

RECURSIVE ParseFrom(_, _)
ParseFrom(lines, pos) ==
    IF pos > Len(lines) THEN <<>>
    ELSE LET p == parse_segmentation_line(lines[pos])
         IN  IF p.label # None
             THEN <<[index |-> LineIndex(lines, pos),
                     label |-> p.label.int,
                     points_string |-> p.points_string,
                     points_count |-> Len(Split(p.points_string)) \div 2]>>
                  \o ParseFrom(lines, pos + 1)
             ELSE ParseFrom(lines, pos + 1)

parse_segmentation_file(file_content) == ParseFrom(StripLines(file_content), 1)

(***************************************************************************)
(* get_bbox_from_denormalized_points                                       *)
(***************************************************************************)
get_bbox_from_denormalized_points(points) ==
    LET x_coords == [i \in 1..((Len(points) + 1) \div 2) |-> points[2 * i - 1]]
        y_coords == [i \in 1..(Len(points) \div 2) |-> points[2 * i]]
    IN  IF x_coords = <<>> \/ y_coords = <<>>
        THEN <<>>
        ELSE <<SeqMin(x_coords), SeqMin(y_coords), SeqMax(x_coords), SeqMax(y_coords)>>

(***************************************************************************)
(* calculate_bbox_overlap_ratio                                            *)
(***************************************************************************)
\* a variant that divides by the area of the union of the two boxes
calculate_bbox_overlap_ratio_IoU(denorm_points_bbox, bbox) ==
    IF Len(denorm_points_bbox) # 4 \/ Len(bbox) # 4
    THEN Zero
    ELSE LET dp_x1 == denorm_points_bbox[1]
             dp_y1 == denorm_points_bbox[2]
             dp_x2 == denorm_points_bbox[3]
             dp_y2 == denorm_points_bbox[4]
             x_left == Max2(dp_x1, bbox[1])
             y_top == Max2(dp_y1, bbox[2])
             x_right == Min2(dp_x2, bbox[3])
             y_bottom == Min2(dp_y2, bbox[4])
             intersection_area == (x_right - x_left) * (y_bottom - y_top)
             denorm_points_area ==
                 (dp_x2 - dp_x1) * (dp_y2 - dp_y1)
                   + (bbox[3] - bbox[1]) * (bbox[4] - bbox[2]) - intersection_area
         IN  IF x_right < x_left \/ y_bottom < y_top
             THEN Zero
             ELSE IF denorm_points_area > 0
                  THEN Ratio(intersection_area, denorm_points_area)
                  ELSE Zero

\* a variant that divides by the area of the detection's box
calculate_bbox_overlap_ratio_OverBBox(denorm_points_bbox, bbox) ==
    IF Len(denorm_points_bbox) # 4 \/ Len(bbox) # 4
    THEN Zero
    ELSE LET dp_x1 == denorm_points_bbox[1]
             dp_y1 == denorm_points_bbox[2]
             dp_x2 == denorm_points_bbox[3]
             dp_y2 == denorm_points_bbox[4]
             x_left == Max2(dp_x1, bbox[1])
             y_top == Max2(dp_y1, bbox[2])
             x_right == Min2(dp_x2, bbox[3])
             y_bottom == Min2(dp_y2, bbox[4])
             intersection_area == (x_right - x_left) * (y_bottom - y_top)
             denorm_points_area == (bbox[3] - bbox[1]) * (bbox[4] - bbox[2])
         IN  IF x_right < x_left \/ y_bottom < y_top
             THEN Zero
             ELSE IF denorm_points_area > 0
                  THEN Ratio(intersection_area, denorm_points_area)
                  ELSE Zero

\* a variant without the test of lines 199-200
calculate_bbox_overlap_ratio_NoOverlapTest(denorm_points_bbox, bbox) ==
    IF Len(denorm_points_bbox) # 4 \/ Len(bbox) # 4
    THEN Zero
    ELSE LET dp_x1 == denorm_points_bbox[1]
             dp_y1 == denorm_points_bbox[2]
             dp_x2 == denorm_points_bbox[3]
             dp_y2 == denorm_points_bbox[4]
             x_left == Max2(dp_x1, bbox[1])
             y_top == Max2(dp_y1, bbox[2])
             x_right == Min2(dp_x2, bbox[3])
             y_bottom == Min2(dp_y2, bbox[4])
             intersection_area == (x_right - x_left) * (y_bottom - y_top)
             denorm_points_area == (dp_x2 - dp_x1) * (dp_y2 - dp_y1)
         IN  IF denorm_points_area > 0
             THEN Ratio(intersection_area, denorm_points_area)
             ELSE Zero

\* lines 185-209: "" and strings that are not four numbers raise inside the
\* try block, whose handler returns 0.0
calculate_bbox_overlap_ratio(denorm_points_bbox, bbox) ==
    IF Len(denorm_points_bbox) # 4 \/ Len(bbox) # 4
    THEN Zero
    ELSE LET dp_x1 == denorm_points_bbox[1]
             dp_y1 == denorm_points_bbox[2]
             dp_x2 == denorm_points_bbox[3]
             dp_y2 == denorm_points_bbox[4]
             x_left == Max2(dp_x1, bbox[1])
             y_top == Max2(dp_y1, bbox[2])
             x_right == Min2(dp_x2, bbox[3])
             y_bottom == Min2(dp_y2, bbox[4])
             intersection_area == (x_right - x_left) * (y_bottom - y_top)
             denorm_points_area == (dp_x2 - dp_x1) * (dp_y2 - dp_y1)
         IN  IF x_right < x_left \/ y_bottom < y_top
             THEN Zero
             ELSE IF denorm_points_area > 0
                  THEN Ratio(intersection_area, denorm_points_area)
                  ELSE Zero

(***************************************************************************)
(* process_image_segmentations.  The body runs inside one try block: an    *)
(* exception leaves the loops at once and keeps every assignment made to   *)
(* the record before it.  Each step below yields the segmentation array    *)
(* it has reached and whether an exception is in flight.                   *)
(***************************************************************************)

\* a variant that takes the entry at list position idx
FindEntry_ByPosition(sia, idx) == IF idx + 1 \in DOMAIN sia THEN idx + 1 ELSE 0

\* position of the first entry whose 'index' is idx, 0 when there is none
FindEntry(sia, idx) ==
    IF \E i \in DOMAIN sia : sia[i]["index"] = idx
    THEN CHOOSE i \in DOMAIN sia :
            /\ sia[i]["index"] = idx
            /\ \A j \in DOMAIN sia : sia[j]["index"] = idx => i <= j
    ELSE 0

\* the loop of lines 242-245 completes without ValueError or IndexError
DenormalizeOk(points) ==
    /\ Len(points) % 2 = 0
    /\ \A i \in DOMAIN points : IsFloat(points[i])

\* str(round(float(points[i]) * image_width)), the same for y with the height
Denormalize(points, image_width, image_height) ==
    [i \in DOMAIN points |->
        LET v == FloatOf(points[i])
            dim == IF i % 2 = 1 THEN image_width ELSE image_height
        IN  Round(v[1] * dim[1], v[2] * dim[2])]

\* a variant with an exclusive threshold
Qualifies_Strict(overlap) == RatioGt(overlap, Half)

\* the second condition of line 264
Qualifies(overlap) == RatioGe(overlap, Half)

\* a variant without the comparison: the last qualifying detection wins
Improves_Always(overlap, max_overlap) == TRUE

\* a variant with >=: the last of several equal detections wins
Improves_OrEqual(overlap, max_overlap) == RatioGe(overlap, max_overlap)

\* the first condition of line 264
Improves(overlap, max_overlap) == RatioGt(overlap, max_overlap)

\* lines 258-266: the position of matching_bbox in bboxes (0 for None), the
\* final max_overlap, and whether bbox['bbox'] raised KeyError
RECURSIVE MatchLoop(_, _, _, _, _)

\* lines 264-266 for the j-th detection, whose ratio is overlap
Compare(denorm_points_bbox, bboxes, j, max_overlap, matching_bbox, overlap) ==
    IF Improves(overlap, max_overlap) /\ Qualifies(overlap)
    THEN MatchLoop(denorm_points_bbox, bboxes, j + 1, overlap, j)
    ELSE MatchLoop(denorm_points_bbox, bboxes, j + 1, max_overlap, matching_bbox)

MatchLoop(denorm_points_bbox, bboxes, j, max_overlap, matching_bbox) ==
    IF j > Len(bboxes)
    THEN [exc |-> FALSE, max_overlap |-> max_overlap, matching_bbox |-> matching_bbox]
    ELSE IF "bbox" \notin DOMAIN bboxes[j]
    THEN [exc |-> TRUE, max_overlap |-> max_overlap, matching_bbox |-> matching_bbox]
    ELSE Compare(denorm_points_bbox, bboxes, j, max_overlap, matching_bbox,
                 calculate_bbox_overlap_ratio(denorm_points_bbox, bboxes[j]["bbox"]))

\* a variant that starts from the score the entry already holds
InitialMaxOverlap_Kept(seg_dict) == Get(seg_dict, "overlap_ratio", Zero)

\* line 258: max_overlap before the detections of one line are looked at
InitialMaxOverlap(seg_dict) == Zero

\* a variant that gives a field its default only when the entry lacks it
InitDefaults_OnlyMissing(seg_dict) ==
    seg_dict @@
        [bbox |-> <<>>, yolo_bbox |-> "", species |-> "", overlap_ratio |-> Zero]

\* lines 252-255
InitDefaults(seg_dict) ==
    Set(Set(Set(Set(seg_dict, "bbox", <<>>), "yolo_bbox", ""), "species", ""),
        "overlap_ratio", Zero)

\* a variant that does not copy the species
CopyMatch_NoSpecies(seg_dict, matching_bbox, max_overlap) ==
    LET d1 == Set(seg_dict, "bbox", matching_bbox["bbox"])
    IN  IF "yolo_bbox" \notin DOMAIN matching_bbox
        THEN [seg_dict |-> d1, exc |-> TRUE]
        ELSE [seg_dict |->
                Set(Set(d1, "yolo_bbox", matching_bbox["yolo_bbox"]),
                    "overlap_ratio", max_overlap),
              exc |-> FALSE]

\* lines 268-272; the subscript matching_bbox['yolo_bbox'] raises KeyError
\* after 'bbox' has been assigned
CopyMatch(seg_dict, matching_bbox, max_overlap) ==
    LET d1 == Set(seg_dict, "bbox", matching_bbox["bbox"])
    IN  IF "yolo_bbox" \notin DOMAIN matching_bbox
        THEN [seg_dict |-> d1, exc |-> TRUE]
        ELSE [seg_dict |->
                Set(Set(Set(d1, "yolo_bbox", matching_bbox["yolo_bbox"]),
                        "species", Get(matching_bbox, "species", "")),
                    "overlap_ratio", max_overlap),
              exc |-> FALSE]

\* lines 236-237
StorePoints(seg_dict, seg) ==
    Set(Set(seg_dict, "segmentation_points", seg.points_string),
        "points_count", seg.points_count)

\* lines 246-249
StoreDenormalized(seg_dict, denormalized) ==
    Set(Set(seg_dict, "denormalized_segmentation_points", denormalized),
        "denorm_points_bbox", get_bbox_from_denormalized_points(denormalized))

\* lines 268-272 after the loop over the detections has ended as m tells
StoreMatch(seg_dict, bboxes, m) ==
    IF m.exc
    THEN [seg_dict |-> seg_dict, exc |-> TRUE]
    ELSE IF m.matching_bbox = 0
    THEN [seg_dict |-> seg_dict, exc |-> FALSE]
    ELSE CopyMatch(seg_dict, bboxes[m.matching_bbox], m.max_overlap)

\* lines 252-272: the defaults, the loop over the detections, the copy
MatchEntry(seg_dict, bboxes) ==
    StoreMatch(InitDefaults(seg_dict), bboxes,
               MatchLoop(seg_dict["denorm_points_bbox"], bboxes, 1,
                         InitialMaxOverlap(seg_dict), 0))

\* lines 240-272 for the coordinates of one parsed line
DenormalizeEntry(seg_dict, points, bboxes, image_width, image_height) ==
    IF ~DenormalizeOk(points)
    THEN [seg_dict |-> seg_dict, exc |-> TRUE]
    ELSE MatchEntry(StoreDenormalized(seg_dict,
                        Denormalize(points, image_width, image_height)),
                    bboxes)

\* lines 235-273 for one parsed line whose entry is seg_dict
ProcessEntry(seg_dict, seg, bboxes, image_width, image_height) ==
    DenormalizeEntry(StorePoints(seg_dict, seg), Split(seg.points_string),
                     bboxes, image_width, image_height)

\* what the for loop of line 227 does once an exception has left it
AfterException(segs, k, sia) == [sia |-> sia, exc |-> TRUE]

\* lines 227-273 from the k-th parsed line on
RECURSIVE ProcessSegs(_, _, _, _, _, _)

\* the loop goes on, or is left, with the entries as the k-th line left them
Continue(segs, k, sia, exc, bboxes, image_width, image_height) ==
    IF exc
    THEN AfterException(segs, k, sia)
    ELSE ProcessSegs(segs, k + 1, sia, bboxes, image_width, image_height)

\* lines 232-273 for the k-th parsed line, joined to position pos of the
\* array; r is what ProcessEntry makes of that entry
JoinEntry(segs, k, sia, pos, r, bboxes, image_width, image_height) ==
    Continue(segs, k, [sia EXCEPT ![pos] = r.seg_dict], r.exc,
             bboxes, image_width, image_height)

\* a variant that leaves the loop at a line without a join target
JoinLine_Break(segs, k, sia, pos, bboxes, image_width, image_height) ==
    IF pos = 0
    THEN [sia |-> sia, exc |-> FALSE]
    ELSE JoinEntry(segs, k, sia, pos,
                   ProcessEntry(sia[pos], segs[k], bboxes, image_width, image_height),
                   bboxes, image_width, image_height)

\* a variant that adds an entry for a line without a join target
JoinLine_Append(segs, k, sia, pos, bboxes, image_width, image_height) ==
    IF pos = 0
    THEN JoinEntry(segs, k,
                   Append(sia, [index |-> segs[k].index, label |-> segs[k].label]),
                   Len(sia) + 1,
                   ProcessEntry([index |-> segs[k].index, label |-> segs[k].label],
                                segs[k], bboxes, image_width, image_height),
                   bboxes, image_width, image_height)
    ELSE JoinEntry(segs, k, sia, pos,
                   ProcessEntry(sia[pos], segs[k], bboxes, image_width, image_height),
                   bboxes, image_width, image_height)

\* lines 229-273 for the k-th parsed line
JoinLine(segs, k, sia, pos, bboxes, image_width, image_height) ==
    IF pos = 0
    THEN ProcessSegs(segs, k + 1, sia, bboxes, image_width, image_height)
    ELSE JoinEntry(segs, k, sia, pos,
                   ProcessEntry(sia[pos], segs[k], bboxes, image_width, image_height),
                   bboxes, image_width, image_height)

ProcessSegs(segs, k, sia, bboxes, image_width, image_height) ==
    IF k > Len(segs)
    THEN [sia |-> sia, exc |-> FALSE]
    ELSE JoinLine(segs, k, sia, FindEntry(sia, segs[k].index),
                  bboxes, image_width, image_height)

\* line 216
EarlyReturn(data, text) ==
    text = <<>> \/ "segmentation_indices_array" \notin DOMAIN data

\* float(image_data.get(key, default)) of lines 219-220 succeeds
DimensionOk(data, key) == key \notin DOMAIN data \/ IsFloat(data[key])

\* float(image_data.get(key, default)), as a fraction
Dimension(data, key, default) ==
    IF key \in DOMAIN data THEN FloatOf(data[key]) ELSE <<default, 1>>

\* a variant that stores the entries over the detections as well
WithEntries_OverInfo(data, r) ==
    [data |-> Set(Set(data, "segmentation_indices_array", r.sia), "info", r.sia),
     exc |-> r.exc]

\* the record once the loop has ended as r tells: the loop has worked on
\* the entries of the record in place
WithEntries(data, r) ==
    [data |-> Set(data, "segmentation_indices_array", r.sia), exc |-> r.exc]

\* lines 216-275: the record when the try block is left, and whether it is
\* left by an exception
TryBody(data, text) ==
    IF EarlyReturn(data, text)
    THEN [data |-> data, exc |-> FALSE]
    ELSE IF ~(DimensionOk(data, "image_width") /\ DimensionOk(data, "image_height"))
    THEN [data |-> data, exc |-> TRUE]
    ELSE WithEntries(data,
            ProcessSegs(parse_segmentation_file(text), 1,
                        data["segmentation_indices_array"],
                        Get(data, "info", <<>>),
                        Dimension(data, "image_width", DefaultWidth),
                        Dimension(data, "image_height", DefaultHeight)))

\* a variant that lets the exception through
ExceptHandler_Reraise(data) == [data |-> data, returned |-> <<>>, raised |-> TRUE]

\* lines 277-279: the handler of the try block
ExceptHandler(data) == [data |-> data, returned |-> <<data>>, raised |-> FALSE]

\* lines 275-279: the try block is left as b tells
LeaveTry(b) ==
    IF b.exc
    THEN ExceptHandler(b.data)
    ELSE [data |-> b.data, returned |-> <<b.data>>, raised |-> FALSE]

\* the record after the call, and what the call gives its caller
process_image_segmentations(data, text) == LeaveTry(TryBody(data, text))

(***************************************************************************)
(* calculate_bbox_overlap and find_matching_bbox: the share of the points  *)
(* of a polygon that lie inside a box, and the detection with the largest  *)
(* share above the threshold.                                              *)
(***************************************************************************)

\* lines 86-88: float() reads both coordinates of every point; ValueError
\* for a token that is no number, IndexError for an odd count
PointsOk(points) ==
    /\ Len(points) % 2 = 0
    /\ \A i \in DOMAIN points : IsFloat(points[i])

\* line 89: the point that begins at position i, in pixels
PointAt(points, i, image_width, image_height) ==
    denormalize_coordinates(PyFloat(FloatOf(points[i])[1], FloatOf(points[i])[2]),
                            PyFloat(FloatOf(points[i + 1])[1], FloatOf(points[i + 1])[2]),
                            PyFloat(image_width[1], image_width[2]),
                            PyFloat(image_height[1], image_height[2]))

\* a <= v for a bbox coordinate a and a float v; false for NaN
LeFloat(a, v) == a # NaN /\ a * v.d <= v.n
GeFloat(a, v) == a # NaN /\ a * v.d >= v.n

\* line 91
Inside(xy, bbox) ==
    /\ LeFloat(bbox[1], xy[1]) /\ GeFloat(bbox[3], xy[1])
    /\ LeFloat(bbox[2], xy[2]) /\ GeFloat(bbox[4], xy[2])

\* lines 72-98; every exception ends in the handler, which returns 0.0
calculate_bbox_overlap(points, bbox, image_width, image_height) ==
    IF points = <<>> \/ bbox = <<>> THEN Zero
    ELSE IF Len(bbox) # 4 \/ ~PointsOk(points) THEN Zero
    ELSE Ratio(Cardinality({i \in DOMAIN points :
                              /\ i % 2 = 1
                              /\ Inside(PointAt(points, i, image_width, image_height),
                                        bbox)}),
               Len(points) \div 2)

\* lines 134-146 from the j-th detection on: the position of best_bbox (0
\* for None), and whether bbox['bbox'] raised KeyError
RECURSIVE FindLoop(_, _, _, _, _, _, _)

\* lines 142-144 for the j-th detection, whose share is overlap
FindCompare(points, bboxes, image_width, image_height, j, max_overlap, best_bbox, overlap) ==
    IF RatioGt(overlap, max_overlap)
    THEN FindLoop(points, bboxes, image_width, image_height, j + 1, overlap, j)
    ELSE FindLoop(points, bboxes, image_width, image_height, j + 1, max_overlap,
                  best_bbox)

FindLoop(points, bboxes, image_width, image_height, j, max_overlap, best_bbox) ==
    IF j > Len(bboxes)
    THEN [exc |-> FALSE, best_bbox |-> best_bbox]
    ELSE IF "bbox" \notin DOMAIN bboxes[j]
    THEN [exc |-> TRUE, best_bbox |-> best_bbox]
    ELSE FindCompare(points, bboxes, image_width, image_height, j, max_overlap,
                     best_bbox,
                     calculate_bbox_overlap(points, bboxes[j]["bbox"],
                                            image_width, image_height))

\* what find_matching_bbox returns when its loop has ended as r tells: the
\* detection, or None, also from the handler of lines 148-150
FindResult(bboxes, r) ==
    IF r.exc \/ r.best_bbox = 0 THEN None ELSE bboxes[r.best_bbox]

\* lines 124-150, with the threshold of the signature
find_matching_bbox(points_string, bboxes, image_width, image_height) ==
    FindResult(bboxes,
               FindLoop(Split(points_string), bboxes, image_width, image_height,
                        1, Half, 0))

(***************************************************************************)
(* GCPOps.update_paper_json_files (src/modules/gcpOps.py).  A Python dict  *)
(* keeps its keys in the order of their first insertion: it is the         *)
(* sequence of its items [key, value].                                     *)
(***************************************************************************)

\* a variant that keeps the value that the dict already holds for the key
DictPut_KeepFirst(d, k, v) ==
    IF \E i \in DOMAIN d : d[i].key = k
    THEN d
    ELSE Append(d, [key |-> k, value |-> v])

\* d[k] = v: the value of a key that d holds is replaced in place, a new
\* key goes to the end
DictPut(d, k, v) ==
    IF \E i \in DOMAIN d : d[i].key = k
    THEN [i \in DOMAIN d |-> IF d[i].key = k THEN [key |-> k, value |-> v] ELSE d[i]]
    ELSE Append(d, [key |-> k, value |-> v])

\* d[paper['pdf_file_url']] = paper for the papers from position i on
RECURSIVE PutPapers(_, _, _)
PutPapers(d, papers, i) ==
    IF i > Len(papers) THEN d
    ELSE PutPapers(DictPut(d, papers[i]["pdf_file_url"], papers[i]), papers, i + 1)

\* list(d.values())
DictValues(d) == [i \in DOMAIN d |-> d[i].value]

\* paper['pdf_file_url'] raises no KeyError
HasUrl(papers) == \A i \in DOMAIN papers : "pdf_file_url" \in DOMAIN papers[i]

\* lines 555-566; the function has no try block
update_paper_json_files(PAPERS, TEMP_JSON_FILES) ==
    IF ~(HasUrl(PAPERS) /\ HasUrl(TEMP_JSON_FILES))
    THEN [returned |-> <<>>, raised |-> TRUE]
    ELSE [returned |-> <<DictValues(PutPapers(PutPapers(<<>>, PAPERS, 1),
                                              TEMP_JSON_FILES, 1))>>,
          raised |-> FALSE]

(***************************************************************************)
(* Two calls of process_image_segmentations side by side, each on a record *)
(* of its own.  A call holds its record, its text, the parsed lines and    *)
(* its place in the loop of line 227 in local variables; the calls take    *)
(* their steps in any order, one parsed line at a time.                    *)
(***************************************************************************)
Procs == {1, 2}

\* the detections that the loop of lines 261-266 of call p goes through:
\* a variant that keeps them in one place for both calls, where the first
\* call has put its own
SessionBboxes_Shared(ss, p) == Get(ss[1].record, "info", <<>>)

\* line 221: bboxes is read from the record of the call
SessionBboxes(ss, p) == Get(ss[p].record, "info", <<>>)

\* the call returns its record, by line 217, 275 or 279
SessionReturn(session, record) ==
    [session EXCEPT !.pc = "returned", !.record = record]

\* lines 216-224 of call p on text
SessionEnter(session, text) ==
    IF EarlyReturn(session.record, text)
    THEN SessionReturn([session EXCEPT !.text = text], session.record)
    ELSE IF ~(DimensionOk(session.record, "image_width")
              /\ DimensionOk(session.record, "image_height"))
    THEN SessionReturn([session EXCEPT !.text = text], session.record)
    ELSE [session EXCEPT !.pc = "loop", !.text = text,
                         !.segs = parse_segmentation_file(text), !.k = 1]

\* the call goes on after one pass of the loop of line 227 that ended as r
\* tells
SessionAfter(session, r) ==
    IF r.exc
    THEN SessionReturn(session, r.data)
    ELSE [session EXCEPT !.record = r.data, !.k = session.k + 1]

\* one pass of the loop of line 227 for the k-th parsed line, or line 275
\* when the lines are used up
SessionPass(session, bboxes) ==
    IF session.k > Len(session.segs)
    THEN SessionReturn(session, session.record)
    ELSE SessionAfter(session,
            WithEntries(session.record,
                ProcessSegs(<<session.segs[session.k]>>, 1,
                            session.record["segmentation_indices_array"],
                            bboxes,
                            Dimension(session.record, "image_width", DefaultWidth),
                            Dimension(session.record, "image_height", DefaultHeight))))

\* the other call is inside its loop
Rival(ss, p) == \E q \in Procs \ {p} : ss[q].pc = "loop"

(***************************************************************************)
(* The records and texts explored.                                         *)
(***************************************************************************)
SpeciesNames == <<"Amphora_ovalis", "Navicula_radiosa", "Cocconeis_placentula",
                  "Nitzschia_palea">>

YoloBoxes == <<"0.5 0.5 1.0 1.0", "0.25 0.5 0.5 1.0", "0.5 0.25 1.0 0.5",
               "0.25 0.25 0.5 0.5">>

Nth(names, i) == names[((i - 1) % Len(names)) + 1]

FullBox == <<0, 0, 4, 4>>
LeftBox == <<0, 0, 2, 4>>

\* labelled detections, one with the bbox not yet assigned (""), and
\* detections that lack the 'bbox' or the 'yolo_bbox' key
DetKinds == {"full", "left", "empty", "no_bbox", "no_yolo_bbox"}

\* the box of a whole image of the default size
BigBox == <<0, 0, DefaultWidth, DefaultHeight>>

\* a box whose corners are swapped, and a bbox string of three numbers
InvertedBox == <<4, 4, 0, 0>>
ThreeFields == <<0, 0, 4>>

\* the bbox string "NaN,NaN,NaN,NaN"
NaNBox == <<NaN, NaN, NaN, NaN>>

Detection(kind, i) ==
    LET base == [index |-> i, species |-> Nth(SpeciesNames, i),
                 label |-> <<Nth(SpeciesNames, i)>>,
                 segmentation |-> "", embeddings |-> ""]
    IN  CASE kind = "full" -> Set(Set(base, "bbox", FullBox), "yolo_bbox", Nth(YoloBoxes, i))
          [] kind = "left" -> Set(Set(base, "bbox", LeftBox), "yolo_bbox", Nth(YoloBoxes, i))
          [] kind = "empty" -> Set(Set(base, "bbox", <<>>), "yolo_bbox", "")
          [] kind = "no_bbox" -> Set(base, "yolo_bbox", Nth(YoloBoxes, i))
          [] kind = "no_yolo_bbox" -> Set(base, "bbox", FullBox)
          [] kind = "big" -> Set(Set(base, "bbox", BigBox), "yolo_bbox", Nth(YoloBoxes, i))
          [] kind = "inverted" ->
                Set(Set(base, "bbox", InvertedBox), "yolo_bbox", Nth(YoloBoxes, i))
          [] kind = "three_fields" ->
                Set(Set(base, "bbox", ThreeFields), "yolo_bbox", Nth(YoloBoxes, i))
          [] kind = "nan" ->
                Set(Set(base, "bbox", NaNBox), "yolo_bbox", Nth(YoloBoxes, i))

\* the detection lists of at most MaxDet detections of these kinds
DetectionListsOf(kinds) ==
    UNION {{[i \in 1..n |-> Detection(k[i], i)] : k \in [1..n -> kinds]} : n \in 0..MaxDet}

DetectionLists == DetectionListsOf(DetKinds)

\* the entries of a record, in ascending order of 'index'
RECURSIVE EntriesOf(_)
EntriesOf(S) ==
    IF S = {} THEN <<>>
    ELSE LET m == CHOOSE x \in S : \A y \in S : x <= y
         IN  <<[index |-> m, label |-> 1]>> \o EntriesOf(S \ {m})

SegmentationArrays == {EntriesOf(S) : S \in SUBSET EntryIndices}

\* the value of image_width and image_height: a size, or the "" that
\* claudeAI.py writes into a new record
DimensionValues == {"4", ""}

\* NoKey: the record has neither image_width nor image_height
NoKey == "<no key>"

ImageRecord(dim, info, has_sia, sia) ==
    LET d0 == [image_url |-> "img_0.png", info |-> info]
        d1 == IF dim = NoKey THEN d0
              ELSE Set(Set(d0, "image_width", dim), "image_height", dim)
    IN  IF has_sia THEN Set(d1, "segmentation_indices_array", sia) ELSE d1

ImageRecords ==
    {ImageRecord(dim, info, TRUE, sia) :
        dim \in DimensionValues, info \in DetectionLists, sia \in SegmentationArrays}
    \cup {ImageRecord(dim, info, FALSE, <<>>) :
        dim \in DimensionValues, info \in DetectionLists}

\* the records whose image size is not set: the keys are missing, or hold
\* the "" of a new record
UnsetRecords ==
    {ImageRecord(dim, info, TRUE, sia) :
        dim \in {NoKey, ""}, info \in DetectionListsOf({"big", "full"}),
        sia \in SegmentationArrays}

SquareLine == <<"1", "0", "0", "1", "1">>
StripLine == <<"1", "0.25", "0", "1", "1">>
BadTokenLine == <<"1", "0", "x", "1", "1">>
OddLine == <<"1", "0", "0", "1">>
ShortLine == <<"1", "0.5">>

\* the lines of the texts given to process_image_segmentations: two
\* polygons, a line whose coordinates cannot be read, a line that the parser
\* rejects
Lines == {SquareLine, StripLine, BadTokenLine, ShortLine}

Texts == UNION {[1..n -> Lines] : n \in 0..MaxLines}

\* "1  0.5": two tokens with two spaces between them
DoubleSpaceLine == <<"1", "", "0.5">>

\* "1<tab>0.5": two tokens with a tab between them, one part for split(' ')
TabLine == <<"1\t0.5">>

\* a line of five tokens whose first token is no integer
NonIntLine == <<"x", "0", "0", "1", "1">>

\* the lines of the files given to parse_segmentation_file
FileLines == Lines \cup {Blank, OddLine, DoubleSpaceLine, TabLine, NonIntLine}

FileContents == UNION {[1..n -> FileLines] : n \in 0..MaxLines}

\* the boxes given to calculate_bbox_overlap_ratio.  A polygon box is what
\* get_bbox_from_denormalized_points returns: "" or a box with x1 <= x2 and
\* y1 <= y2.  A detection box is any string of four numbers, also with
\* swapped corners, "" or a string of three numbers.
Coords == 0..MaxCoord

PolygonBoxes ==
    {<<>>} \cup {b \in Coords \X Coords \X Coords \X Coords :
                    b[1] <= b[3] /\ b[2] <= b[4]}

DetectionBoxes ==
    {<<>>, <<0, 0, MaxCoord>>} \cup (Coords \X Coords \X Coords \X Coords)

\* the texts whose lines are of the given kinds
TextsOf(lines) == UNION {[1..n -> lines] : n \in 0..MaxLines}

\* the records and texts of the two calls that run side by side
SessionKinds == <<{"full", "left"}, {"left"}>>
SessionLines == <<{StripLine, BadTokenLine}, {SquareLine, ShortLine}>>

SessionRecords(p) ==
    {ImageRecord("4", info, TRUE, EntriesOf(EntryIndices)) :
        info \in DetectionListsOf(SessionKinds[p])}

\* a call that has not begun
IdleSession(record) ==
    [pc |-> "idle", record |-> record, arg |-> record, text |-> <<>>,
     segs |-> <<>>, k |-> 0, mixed |-> FALSE]

\* the papers given to update_paper_json_files: three urls, two versions
\* of each paper, and a paper without the 'pdf_file_url' key
PdfUrls == {"a.pdf", "b.pdf", "c.pdf"}

PaperTitles == {"first", "second"}

PaperObjects ==
    {[pdf_file_url |-> u, title |-> t] : u \in PdfUrls, t \in PaperTitles}
    \cup {[title |-> "first"]}

PaperLists == UNION {[1..n -> PaperObjects] : n \in 0..MaxPapers}

\* the arguments given to normalize_coordinates and denormalize_coordinates:
\* pixel counts, floats, a str and None
CoordNumbers ==
    {PyInt(n) : n \in 0..MaxPixel} \cup {PyFloat(0, 1), PyFloat(1, 2), PyFloat(4, 1)}

CoordValues == CoordNumbers \cup {PyStr(1), PyNone}

(***************************************************************************)
(* The state machine: a record, and calls of the methods of SegmentationOps *)
(* on it, one at a time.                                                   *)
(***************************************************************************)
\* app.py holds no data and no call is in progress side by side
AppIdle ==
    /\ DIATOMS_DATA = <<>>
    /\ PAPER_JSON_FILES = <<>>
    /\ blob = <<>>
    /\ sessions = <<>>

Init ==
    /\ image_data \in ImageRecords
    /\ pc = "idle"
    /\ called = ""
    /\ segmentation_text = <<>>
    /\ boxes = <<>>
    /\ returned = <<>>
    /\ args = <<>>
    /\ AppIdle

\* the call ends as r tells
Leave(r) ==
    /\ image_data' = r.data
    /\ returned' = r.returned
    /\ pc' = IF r.raised THEN "raised" ELSE "returned"

\* a caller runs process_image_segmentations(image_data, text) to its end
ProcessImageSegmentations(text) ==
    /\ pc = "idle"
    /\ Leave(process_image_segmentations(image_data, text))
    /\ called' = "process_image_segmentations"
    /\ segmentation_text' = text
    /\ boxes' = <<>>
    /\ UNCHANGED <<args, appvars>>

\* a caller runs parse_segmentation_file(text)
ParseSegmentationFile(text) ==
    /\ pc = "idle"
    /\ returned' = <<parse_segmentation_file(text)>>
    /\ pc' = "returned"
    /\ called' = "parse_segmentation_file"
    /\ segmentation_text' = text
    /\ UNCHANGED <<image_data, boxes, args, appvars>>

\* a caller runs parse_segmentation_line(line); segmentation_text holds the
\* line
ParseSegmentationLine(line) ==
    /\ pc = "idle"
    /\ returned' = <<[label |-> parse_segmentation_line(line).label,
                      points_string |-> parse_segmentation_line(line).points_string]>>
    /\ pc' = IF parse_segmentation_line(line).raised THEN "raised" ELSE "returned"
    /\ called' = "parse_segmentation_line"
    /\ segmentation_text' = <<line>>
    /\ UNCHANGED <<image_data, boxes, args, appvars>>

\* a caller runs calculate_bbox_overlap_ratio(denorm_points_bbox, bbox) on
\* some pair of boxes
CalculateBboxOverlapRatio ==
    /\ pc = "idle"
    /\ \E denorm_points_bbox \in PolygonBoxes, bbox \in DetectionBoxes :
          /\ returned' = <<calculate_bbox_overlap_ratio(denorm_points_bbox, bbox)>>
          /\ boxes' = <<denorm_points_bbox, bbox>>
    /\ pc' = "returned"
    /\ called' = "calculate_bbox_overlap_ratio"
    /\ UNCHANGED <<image_data, segmentation_text, args, appvars>>

\* a caller runs normalize_coordinates(x, y, image_width, image_height)
NormalizeCoordinates ==
    /\ pc = "idle"
    /\ \E x \in CoordValues, y \in CoordValues,
          image_width \in CoordValues, image_height \in CoordValues :
          /\ returned' = <<normalize_coordinates(x, y, image_width, image_height)>>
          /\ args' = <<x, y, image_width, image_height>>
    /\ pc' = "returned"
    /\ called' = "normalize_coordinates"
    /\ UNCHANGED <<image_data, segmentation_text, boxes, appvars>>

\* a caller runs denormalize_coordinates(norm_x, norm_y, image_width,
\* image_height)
DenormalizeCoordinates ==
    /\ pc = "idle"
    /\ \E norm_x \in CoordValues, norm_y \in CoordValues,
          image_width \in CoordValues, image_height \in CoordValues :
          /\ returned' =
                <<denormalize_coordinates(norm_x, norm_y, image_width, image_height)>>
          /\ args' = <<norm_x, norm_y, image_width, image_height>>
    /\ pc' = "returned"
    /\ called' = "denormalize_coordinates"
    /\ UNCHANGED <<image_data, segmentation_text, boxes, appvars>>

\* the caller of normalize_coordinates gives its result to
\* denormalize_coordinates, with the same size; args keeps (x, y) as its
\* fifth element
DenormalizeNormalized ==
    /\ pc = "returned"
    /\ called = "normalize_coordinates"
    /\ returned' = <<denormalize_coordinates(returned[1][1], returned[1][2],
                                             args[3], args[4])>>
    /\ args' = <<returned[1][1], returned[1][2], args[3], args[4], <<args[1], args[2]>>>>
    /\ pc' = "returned"
    /\ called' = "denormalize_coordinates"
    /\ UNCHANGED <<image_data, segmentation_text, boxes, appvars>>

\* call p of process_image_segmentations begins, with this text
SessionStart(p, text) ==
    /\ sessions[p].pc = "idle"
    /\ sessions' = [sessions EXCEPT ![p] = SessionEnter(sessions[p], text)]
    /\ UNCHANGED <<image_data, pc, called, segmentation_text, boxes, returned, args,
                   DIATOMS_DATA, PAPER_JSON_FILES, blob>>

\* call p takes its next step; mixed records that the other call was
\* inside its loop at one of the steps of p
SessionStep(p) ==
    /\ sessions[p].pc = "loop"
    /\ sessions' =
          [sessions EXCEPT ![p] =
              [SessionPass(sessions[p], SessionBboxes(sessions, p))
                  EXCEPT !.mixed = sessions[p].mixed \/ Rival(sessions, p)]]
    /\ UNCHANGED <<image_data, pc, called, segmentation_text, boxes, returned, args,
                   DIATOMS_DATA, PAPER_JSON_FILES, blob>>

\* a caller runs find_matching_bbox on the coordinates of a line, with the
\* detections and the size of the record
FindMatchingBbox(line) ==
    /\ pc = "idle"
    /\ DimensionOk(image_data, "image_width")
    /\ DimensionOk(image_data, "image_height")
    /\ returned' = <<find_matching_bbox(Tail(line), Get(image_data, "info", <<>>),
                                        Dimension(image_data, "image_width", DefaultWidth),
                                        Dimension(image_data, "image_height", DefaultHeight))>>
    /\ pc' = "returned"
    /\ called' = "find_matching_bbox"
    /\ segmentation_text' = <<line>>
    /\ UNCHANGED <<image_data, boxes, args, appvars>>

\* a caller runs update_paper_json_files(PAPERS, TEMP_JSON_FILES) on two
\* lists of its own
UpdatePaperJsonFiles ==
    /\ pc = "idle"
    /\ \E PAPERS \in PaperLists, TEMP_JSON_FILES \in PaperLists :
          /\ returned' = update_paper_json_files(PAPERS, TEMP_JSON_FILES).returned
          /\ pc' = IF update_paper_json_files(PAPERS, TEMP_JSON_FILES).raised
                   THEN "raised" ELSE "returned"
          /\ args' = <<PAPERS, TEMP_JSON_FILES>>
    /\ called' = "update_paper_json_files"
    /\ UNCHANGED <<image_data, segmentation_text, boxes, appvars>>

\* the caller is done with the call: its arguments and its result are
\* dropped, the record stays
Complete ==
    /\ pc # "idle"
    /\ pc' = "idle"
    /\ called' = ""
    /\ segmentation_text' = <<>>
    /\ boxes' = <<>>
    /\ returned' = <<>>
    /\ args' = <<>>
    /\ UNCHANGED <<image_data, appvars>>

Next ==
    \/ \E text \in Texts : ProcessImageSegmentations(text)
    \/ Complete

Spec == Init /\ [][Next]_vars

\* calls on the records whose image size is not set
InitUnset ==
    /\ image_data \in UnsetRecords
    /\ pc = "idle"
    /\ called = ""
    /\ segmentation_text = <<>>
    /\ boxes = <<>>
    /\ returned = <<>>
    /\ args = <<>>
    /\ AppIdle

SpecUnset == InitUnset /\ [][Next]_vars

\* calls on the records whose detections hold well-formed boxes, "", a box
\* with swapped corners, a string of three numbers or a string of four NaN
MalformedKinds == {"full", "left", "empty", "inverted", "three_fields", "nan"}

MalformedRecords ==
    {ImageRecord("4", info, TRUE, sia) :
        info \in DetectionListsOf(MalformedKinds), sia \in SegmentationArrays}

InitMalformed ==
    /\ image_data \in MalformedRecords
    /\ pc = "idle"
    /\ called = ""
    /\ segmentation_text = <<>>
    /\ boxes = <<>>
    /\ returned = <<>>
    /\ args = <<>>
    /\ AppIdle

SpecMalformed == InitMalformed /\ [][Next]_vars

\* the overlap ratio alone, applied to every pair of boxes; it reads no record
InitOverlap == Init /\ image_data = ImageRecord("4", <<>>, TRUE, <<>>)

NextOverlap ==
    \/ CalculateBboxOverlapRatio
    \/ Complete

SpecOverlap == InitOverlap /\ [][NextOverlap]_vars

InitSessions ==
    /\ image_data = ImageRecord("4", <<>>, TRUE, <<>>)
    /\ pc = "idle"
    /\ called = ""
    /\ segmentation_text = <<>>
    /\ boxes = <<>>
    /\ returned = <<>>
    /\ args = <<>>
    /\ DIATOMS_DATA = <<>>
    /\ PAPER_JSON_FILES = <<>>
    /\ blob = <<>>
    /\ \E r1 \in SessionRecords(1), r2 \in SessionRecords(2) :
          sessions = <<IdleSession(r1), IdleSession(r2)>>

NextSessions ==
    \/ \E p \in Procs : \E text \in TextsOf(SessionLines[p]) : SessionStart(p, text)
    \/ \E p \in Procs : SessionStep(p)

SpecSessions == InitSessions /\ [][NextSessions]_vars

\* find_matching_bbox alone, on the detections of the records
NextFind ==
    \/ \E line \in Lines : FindMatchingBbox(line)
    \/ Complete

SpecFind == InitMalformed /\ [][NextFind]_vars

\* update_paper_json_files alone
NextUpsert ==
    \/ UpdatePaperJsonFiles
    \/ Complete

SpecUpsert == InitOverlap /\ [][NextUpsert]_vars

\* the two coordinate functions alone; they read no record
NextCoords ==
    \/ NormalizeCoordinates
    \/ DenormalizeCoordinates
    \/ DenormalizeNormalized
    \/ Complete

SpecCoords == InitOverlap /\ [][NextCoords]_vars

\* the parser alone, applied to every line and every file; it reads no
\* record, so the records without detections stand for all of them
InitParse == Init /\ Get(image_data, "info", <<>>) = <<>>

NextParse ==
    \/ \E file_content \in FileContents : ParseSegmentationFile(file_content)
    \/ \E line \in FileLines : ParseSegmentationLine(line)
    \/ Complete

SpecParse == InitParse /\ [][NextParse]_vars

(***************************************************************************)
(* app.py: the two caches DIATOMS_DATA and PAPER_JSON_FILES, the JSON file  *)
(* of the papers in storage (blob), and the calls that read and write      *)
(* them.  A diatoms_data attribute is a dict, a string of JSON             *)
(* ([json |-> dict]) or, once update_and_save_papers has assigned it, the  *)
(* very object that DIATOMS_DATA holds at a position ([ref |-> position]). *)
(***************************************************************************)
IsStr(v) == "json" \in DOMAIN v

IsRef(v) == "ref" \in DOMAIN v

json_loads(v) == v.json

\* the dict that a diatoms_data attribute denotes
Deref(v, data) == IF IsRef(v) THEN data[v.ref] ELSE v

\* json.dumps writes an object where it is referenced
Dumped(paper, data) ==
    IF "diatoms_data" \in DOMAIN paper
    THEN Set(paper, "diatoms_data", Deref(paper["diatoms_data"], data))
    ELSE paper

json_dumps(papers, data) == [k \in DOMAIN papers |-> Dumped(papers[k], data)]

\* a paper whose diatoms_data is a string of JSON gets the parsed dict
ParsedPaper(paper) ==
    IF "diatoms_data" \in DOMAIN paper /\ IsStr(paper["diatoms_data"])
    THEN Set(paper, "diatoms_data", json_loads(paper["diatoms_data"]))
    ELSE paper

load_paper_json_files(stored) == [k \in DOMAIN stored |-> ParsedPaper(stored[k])]

HasData(paper) == "diatoms_data" \in DOMAIN paper

DataOfPaper(paper) == ParsedPaper(paper)["diatoms_data"]

get_DIATOMS_DATA(stored) ==
    LET with == SelectSeq(stored, HasData)
    IN  [k \in DOMAIN with |-> DataOfPaper(with[k])]

initialize_data(stored) ==
    IF load_paper_json_files(stored) # <<>>
    THEN [PAPER_JSON_FILES |-> load_paper_json_files(stored),
          DIATOMS_DATA |-> get_DIATOMS_DATA(stored)]
    ELSE [PAPER_JSON_FILES |-> <<>>, DIATOMS_DATA |-> <<>>]

\* 0 <= image_index < len(DIATOMS_DATA)
InRange_NoLowerBound(image_index, n) == image_index < n

InRange(image_index, n) == 0 <= image_index /\ image_index < n

\* list[i] of Python, the position counted from 1; 0 when it is an IndexError
ListIndex(i, n) ==
    IF 0 <= i /\ i < n THEN i + 1
    ELSE IF i < 0 /\ 0 - n <= i THEN n + i + 1
    ELSE 0

\* paper['diatoms_data']['info'] = info, through the reference if it is one
SetPaperInfo_Skipped(state, k, info) == state

SetPaperInfo(state, k, info) ==
    LET v == state.PAPER_JSON_FILES[k]["diatoms_data"]
    IN  IF IsRef(v)
        THEN [state EXCEPT !.DIATOMS_DATA[v.ref] = Set(@, "info", info)]
        ELSE [state EXCEPT !.PAPER_JSON_FILES[k] = Set(@, "diatoms_data", Set(v, "info", info))]

\* the loop over the papers of save_labels, from paper k on
RECURSIVE SaveLoop(_, _, _, _)
SaveLoop(state, k, pos, info) ==
    IF k > Len(state.PAPER_JSON_FILES) THEN state
    ELSE IF ~HasData(state.PAPER_JSON_FILES[k]) THEN SaveLoop(state, k + 1, pos, info)
    ELSE LET parsed == [state EXCEPT !.PAPER_JSON_FILES[k] = ParsedPaper(@)]
         IN  IF Get(Deref(parsed.PAPER_JSON_FILES[k]["diatoms_data"], parsed.DIATOMS_DATA),
                    "image_url", "")
                  = Get(parsed.DIATOMS_DATA[pos], "image_url", "")
             THEN SetPaperInfo(parsed, k, info)
             ELSE SaveLoop(parsed, k + 1, pos, info)

\* diatoms_data_map[image_url]: the last entry that holds the image_url; 0
\* when '' or no entry holds it
MapLookup(data, image_url) ==
    IF image_url = "" \/ \A j \in DOMAIN data : Get(data[j], "image_url", "") # image_url
    THEN 0
    ELSE CHOOSE j \in DOMAIN data :
            /\ Get(data[j], "image_url", "") = image_url
            /\ \A i \in DOMAIN data : Get(data[i], "image_url", "") = image_url => i <= j

Replaced(paper, data) ==
    IF MapLookup(data, Get(Deref(Get(ParsedPaper(paper), "diatoms_data", <<>>), data),
                           "image_url", "")) # 0
    THEN Set(paper, "diatoms_data",
             [ref |-> MapLookup(data,
                          Get(Deref(Get(ParsedPaper(paper), "diatoms_data", <<>>), data),
                              "image_url", ""))])
    ELSE ParsedPaper(paper)

\* the papers are updated first, then uploaded; when the upload raises the
\* method returns False and the papers stay updated
update_and_save_papers(state, upload_ok) ==
    LET papers == [k \in DOMAIN state.PAPER_JSON_FILES |->
                      Replaced(state.PAPER_JSON_FILES[k], state.DIATOMS_DATA)]
    IN  [success |-> upload_ok,
         PAPER_JSON_FILES |-> papers,
         DIATOMS_DATA |-> state.DIATOMS_DATA,
         blob |-> IF upload_ok THEN json_dumps(papers, state.DIATOMS_DATA) ELSE state.blob]

save_labels(image_index, info, upload_ok, state) ==
    IF ~InRange(image_index, Len(state.DIATOMS_DATA))
    THEN [returned |-> FALSE, raised |-> FALSE, saved |-> FALSE, state |-> state]
    ELSE IF ListIndex(image_index, Len(state.DIATOMS_DATA)) = 0
    THEN [returned |-> FALSE, raised |-> TRUE, saved |-> FALSE, state |-> state]
    ELSE LET pos == ListIndex(image_index, Len(state.DIATOMS_DATA))
             assigned == [state EXCEPT !.DIATOMS_DATA[pos] = Set(@, "info", info)]
             saved == update_and_save_papers(SaveLoop(assigned, 1, pos, info), upload_ok)
         IN  [returned |-> saved.success, raised |-> ~saved.success, saved |-> TRUE,
              state |-> [PAPER_JSON_FILES |-> saved.PAPER_JSON_FILES,
                         DIATOMS_DATA |-> saved.DIATOMS_DATA,
                         blob |-> saved.blob]]

\* get_diatoms assigns DIATOMS_DATA and declares no global, so the name is a
\* local of the function that is read before it is bound
DiatomsDataIsLocal == TRUE

ErrorResponse == [status |-> 500, current_index |-> 0, total_images |-> 0, data |-> <<>>]

Clamp(image_index, total_images) ==
    IF total_images - 1 < (IF image_index < 0 THEN 0 ELSE image_index)
    THEN total_images - 1
    ELSE (IF image_index < 0 THEN 0 ELSE image_index)

get_diatoms(image_index, data) ==
    IF DiatomsDataIsLocal THEN ErrorResponse
    ELSE IF data = <<>>
    THEN [status |-> 200, current_index |-> 0, total_images |-> 0, data |-> <<>>]
    ELSE [status |-> 200, current_index |-> Clamp(image_index, Len(data)),
          total_images |-> Len(data),
          data |-> data[ListIndex(Clamp(image_index, Len(data)), Len(data))]]

\* the files in storage: at most MaxPapers papers, each without diatoms_data
\* or with one, as a dict or as a string of JSON
ImageUrls == {"", "u1"}

InfoValues == {<<>>, <<Detection("full", 1)>>}

StoredDicts == {[image_url |-> u, info |-> i] : u \in ImageUrls, i \in InfoValues}

StoredPapers ==
    {[pdf_file_url |-> "a.pdf"]}
    \cup {[pdf_file_url |-> "a.pdf", diatoms_data |-> d] : d \in StoredDicts}
    \cup {[pdf_file_url |-> "a.pdf", diatoms_data |-> [json |-> d]] :
             d \in {s \in StoredDicts : s.info = <<>> /\ s.image_url # ""}}

StoredFiles == UNION {[1..n -> StoredPapers] : n \in 0..MaxPapers}

AppState == [PAPER_JSON_FILES |-> PAPER_JSON_FILES, DIATOMS_DATA |-> DIATOMS_DATA,
             blob |-> blob]

\* the process starts as a script, which runs initialize_data, or under a
\* server that imports app, which leaves both caches empty
InitApp ==
    /\ image_data = ImageRecord("4", <<>>, TRUE, <<>>)
    /\ pc = "idle"
    /\ called = ""
    /\ segmentation_text = <<>>
    /\ boxes = <<>>
    /\ returned = <<>>
    /\ args = <<>>
    /\ sessions = <<>>
    /\ blob \in StoredFiles
    /\ \/ /\ PAPER_JSON_FILES = initialize_data(blob).PAPER_JSON_FILES
          /\ DIATOMS_DATA = initialize_data(blob).DIATOMS_DATA
       \/ /\ PAPER_JSON_FILES = <<>>
          /\ DIATOMS_DATA = <<>>

\* GET /label
Label ==
    /\ pc = "idle"
    /\ called' = "label"
    /\ args' = <<>>
    /\ returned' = <<>>
    /\ DIATOMS_DATA' = IF DIATOMS_DATA = <<>> THEN get_DIATOMS_DATA(blob) ELSE DIATOMS_DATA
    /\ UNCHANGED <<image_data, pc, segmentation_text, boxes, PAPER_JSON_FILES, blob, sessions>>

SaveLabels ==
    /\ pc = "idle"
    /\ \E image_index \in -1..(MaxPapers + 1), info \in InfoValues, upload_ok \in BOOLEAN :
          /\ called' = "save_labels"
          /\ args' = <<image_index, info>>
          /\ returned' = <<[returned |-> save_labels(image_index, info, upload_ok, AppState).returned,
                            raised |-> save_labels(image_index, info, upload_ok, AppState).raised,
                            saved |-> save_labels(image_index, info, upload_ok, AppState).saved]>>
          /\ PAPER_JSON_FILES' =
                save_labels(image_index, info, upload_ok, AppState).state.PAPER_JSON_FILES
          /\ DIATOMS_DATA' =
                save_labels(image_index, info, upload_ok, AppState).state.DIATOMS_DATA
          /\ blob' = save_labels(image_index, info, upload_ok, AppState).state.blob
    /\ UNCHANGED <<image_data, pc, segmentation_text, boxes, sessions>>

\* GET /api/diatoms
GetDiatoms ==
    /\ pc = "idle"
    /\ \E image_index \in -1..(MaxPapers + 1) :
          /\ called' = "get_diatoms"
          /\ args' = <<image_index>>
          /\ returned' = <<get_diatoms(image_index, DIATOMS_DATA)>>
    /\ UNCHANGED <<image_data, pc, segmentation_text, boxes, appvars>>

NextApp ==
    \/ Label
    \/ SaveLabels
    \/ GetDiatoms

SpecApp == InitApp /\ [][NextApp]_vars

(***************************************************************************)
(* Vocabulary of the properties.                                           *)
(***************************************************************************)
Entries(data) == Get(data, "segmentation_indices_array", <<>>)

Detections(data) == Get(data, "info", <<>>)

\* the detections whose overlap ratio with a polygon box is defined
WithBBox(data) == {j \in DOMAIN Detections(data) : "bbox" \in DOMAIN Detections(data)[j]}

\* every detection of the record holds the keys that the matching reads
WellKeyed(data) ==
    \A j \in DOMAIN Detections(data) :
        {"bbox", "yolo_bbox"} \subseteq DOMAIN Detections(data)[j]

\* the overlap ratio of the polygon box of entry e with detection j
OverlapOf(data, e, j) ==
    calculate_bbox_overlap_ratio(e["denorm_points_bbox"], Detections(data)[j]["bbox"])

\* the polygon box of the entry has been derived, so its ratios are defined
HasBox(e) == "denorm_points_bbox" \in DOMAIN e

\* detection j reaches the largest ratio of the record for entry e
IsMaximal(data, e, j) ==
    \A k \in WithBBox(data) : RatioGe(OverlapOf(data, e, j), OverlapOf(data, e, k))

\* a detection has been copied into the entry
HasCopy(e) == Get(e, "bbox", <<>>) # <<>>

\* the match of the entry is complete: line 272 has stored its score
Matched(e) == Get(e, "overlap_ratio", Zero) # Zero

Unmatched(e) ==
    /\ Get(e, "bbox", <<>>) = <<>>
    /\ Get(e, "yolo_bbox", "") = ""
    /\ Get(e, "species", "") = ""
    /\ Get(e, "overlap_ratio", Zero) = Zero

\* the last call was process_image_segmentations and it has returned
Processed == called = "process_image_segmentations" /\ pc = "returned"

\* the lines of the text of the call, as the call parses them
ParsedLines == parse_segmentation_file(segmentation_text)

\* a call on data with this text goes past its early return and reads the
\* image size
Enters(data, text) ==
    /\ ~EarlyReturn(data, text)
    /\ DimensionOk(data, "image_width") /\ DimensionOk(data, "image_height")

\* the last call did so; no call changes the keys that decide it
Entered == Processed /\ Enters(image_data, segmentation_text)

\* the entry that a line of index idx is joined to
EntryOf(data, idx) == Entries(data)[FindEntry(Entries(data), idx)]

\* parsed line s has a join target in the record
HasTarget(data, s) == \E i \in DOMAIN Entries(data) : Entries(data)[i]["index"] = s.index

\* the coordinates of parsed line s can be denormalized
Denormalizable(s) ==
    LET points == Split(s.points_string)
    IN  Len(points) % 2 = 0 /\ \A i \in DOMAIN points : points[i] \in FloatLiterals

\* position i of the segmentation array was rewritten from a line of the
\* text of the call: the line carries the points that the entry holds now
Rewritten(i) ==
    /\ Entered
    /\ \E k \in DOMAIN ParsedLines :
          /\ ParsedLines[k].index = Entries(image_data)[i]["index"]
          /\ Denormalizable(ParsedLines[k])
          /\ Get(Entries(image_data)[i], "segmentation_points", <<>>)
                = ParsedLines[k].points_string
          /\ \A m \in 1..(k - 1) :
                HasTarget(image_data, ParsedLines[m]) => Denormalizable(ParsedLines[m])

(***************************************************************************)
(* C1: whenever a detection has been copied into a segmentation entry, it  *)
(* is a detection of the record whose overlap ratio with the polygon box   *)
(* of the entry is at least 0.5 and is not smaller than the ratio of any   *)
(* other detection.                                                        *)
(***************************************************************************)
C1_CopiedDetectionIsMaximal ==
    \A i \in DOMAIN Entries(image_data) :
        LET e == Entries(image_data)[i]
        IN  HasCopy(e) =>
                /\ HasBox(e)
                /\ \E j \in WithBBox(image_data) :
                      /\ Detections(image_data)[j]["bbox"] = e["bbox"]
                      /\ RatioGe(OverlapOf(image_data, e, j), Half)
                      /\ IsMaximal(image_data, e, j)

\* a call has matched an entry although another detection also reaches 0.5,
\* with a smaller ratio
C1_Witness ==
    \E i \in DOMAIN Entries(image_data) :
        LET e == Entries(image_data)[i]
        IN  /\ Rewritten(i)
            /\ Matched(e)
            /\ \E k \in WithBBox(image_data) :
                  /\ RatioGe(OverlapOf(image_data, e, k), Half)
                  /\ RatioGt(e["overlap_ratio"], OverlapOf(image_data, e, k))

(***************************************************************************)
(* C2: a matched entry carries the yolo_bbox and species of the earliest   *)
(* detection, in the order of the detection list, among those that reach   *)
(* the largest overlap ratio.                                              *)
(***************************************************************************)
FirstMaximal(data, e) ==
    CHOOSE j \in WithBBox(data) :
        /\ IsMaximal(data, e, j)
        /\ \A k \in WithBBox(data) : IsMaximal(data, e, k) => j <= k

C2_TieGoesToEarliest ==
    \A i \in DOMAIN Entries(image_data) :
        LET e == Entries(image_data)[i]
        IN  Matched(e) =>
                LET d == Detections(image_data)[FirstMaximal(image_data, e)]
                IN  /\ e["bbox"] = d["bbox"]
                    /\ e["yolo_bbox"] = Get(d, "yolo_bbox", "")
                    /\ e["species"] = Get(d, "species", "")

\* a call has matched an entry for which two detections tie at the top
C2_Witness ==
    \E i \in DOMAIN Entries(image_data) :
        LET e == Entries(image_data)[i]
        IN  /\ Rewritten(i)
            /\ Matched(e)
            /\ \E j, k \in WithBBox(image_data) :
                  /\ j < k
                  /\ IsMaximal(image_data, e, j)
                  /\ IsMaximal(image_data, e, k)

(***************************************************************************)
(* C3: the threshold is inclusive.  In a record whose detections all hold  *)
(* their keys, an entry whose best detection overlaps its polygon box by   *)
(* exactly 0.5 is matched with overlap_ratio 0.5, and an entry whose best  *)
(* detection stays below 0.5 is not matched.                               *)
(***************************************************************************)
BestIs(data, e, r) ==
    /\ \E j \in WithBBox(data) : OverlapOf(data, e, j) = r
    /\ \A j \in WithBBox(data) : RatioGe(r, OverlapOf(data, e, j))

AllBelowHalf(data, e) ==
    \A j \in WithBBox(data) : RatioGt(Half, OverlapOf(data, e, j))

C3_ThresholdInclusive ==
    WellKeyed(image_data) =>
        \A i \in DOMAIN Entries(image_data) :
            LET e == Entries(image_data)[i]
            IN  HasBox(e) =>
                    /\ BestIs(image_data, e, Half) =>
                            HasCopy(e) /\ e["overlap_ratio"] = Half
                    /\ AllBelowHalf(image_data, e) => ~HasCopy(e) /\ ~Matched(e)

\* one call has matched an entry at exactly 0.5 and left another one, whose
\* best ratio is positive but below 0.5, without a match
C3_Witness ==
    /\ WellKeyed(image_data)
    /\ \E i \in DOMAIN Entries(image_data) :
          /\ Rewritten(i)
          /\ BestIs(image_data, Entries(image_data)[i], Half)
          /\ Matched(Entries(image_data)[i])
    /\ \E i \in DOMAIN Entries(image_data) :
          /\ Rewritten(i)
          /\ AllBelowHalf(image_data, Entries(image_data)[i])
          /\ \E j \in WithBBox(image_data) :
                RatioGt(OverlapOf(image_data, Entries(image_data)[i], j), Zero)

(***************************************************************************)
(* C4: after a call, every entry that the call has rewritten and for whose *)
(* polygon box no detection reaches 0.5 holds bbox "", yolo_bbox "",       *)
(* species "" and overlap_ratio 0.0.                                       *)
(***************************************************************************)
C4_NoMatchResetsEntry ==
    \A i \in DOMAIN Entries(image_data) :
        LET e == Entries(image_data)[i]
        IN  (Rewritten(i) /\ AllBelowHalf(image_data, e)) =>
                /\ {"bbox", "yolo_bbox", "species", "overlap_ratio"} \subseteq DOMAIN e
                /\ Unmatched(e)

\* a call has rewritten an entry that a detection overlaps by less than 0.5
C4_Witness ==
    \E i \in DOMAIN Entries(image_data) :
        /\ Rewritten(i)
        /\ AllBelowHalf(image_data, Entries(image_data)[i])
        /\ WithBBox(image_data) # {}
        /\ Entries(image_data)[i]["overlap_ratio"] = Zero

(***************************************************************************)
(* C5: a matched entry holds the bbox, yolo_bbox and species of one and    *)
(* the same detection, and its overlap_ratio is the ratio computed for     *)
(* that detection.                                                         *)
(***************************************************************************)
C5_MatchCopiesOneDetection ==
    \A i \in DOMAIN Entries(image_data) :
        LET e == Entries(image_data)[i]
        IN  Matched(e) =>
                \E j \in WithBBox(image_data) :
                    LET d == Detections(image_data)[j]
                    IN  /\ e["bbox"] = d["bbox"]
                        /\ "yolo_bbox" \in DOMAIN d
                        /\ e["yolo_bbox"] = d["yolo_bbox"]
                        /\ e["species"] = Get(d, "species", "")
                        /\ e["overlap_ratio"] = OverlapOf(image_data, e, j)

\* a call has matched an entry in a record with two detections that differ
\* in bbox, yolo_bbox and species
C5_Witness ==
    \E i \in DOMAIN Entries(image_data) :
        /\ Rewritten(i)
        /\ Matched(Entries(image_data)[i])
        /\ \E j, k \in WithBBox(image_data) :
              /\ Detections(image_data)[j]["bbox"] # Detections(image_data)[k]["bbox"]
              /\ Get(Detections(image_data)[j], "yolo_bbox", "")
                    # Get(Detections(image_data)[k], "yolo_bbox", "")
              /\ Detections(image_data)[j]["species"] # Detections(image_data)[k]["species"]

(***************************************************************************)
(* C6: process_image_segmentations never raises, and what it returns is    *)
(* the record it was given, with the changes the call made to it.          *)
(***************************************************************************)
C6_NeverRaises ==
    called = "process_image_segmentations" =>
        /\ pc # "raised"
        /\ returned = <<image_data>>

\* the call returned although float() raised in its try block: the entry
\* of the first line that has a join target holds the points of that line,
\* and they cannot be denormalized
C6_Witness ==
    /\ Entered
    /\ \E k \in DOMAIN ParsedLines :
          /\ HasTarget(image_data, ParsedLines[k])
          /\ \A m \in 1..(k - 1) : ~HasTarget(image_data, ParsedLines[m])
          /\ ~Denormalizable(ParsedLines[k])
          /\ Get(EntryOf(image_data, ParsedLines[k].index), "segmentation_points", <<>>)
                = ParsedLines[k].points_string

(***************************************************************************)
(* C7: a failure of one line (a coordinate that is no number, an odd       *)
(* number of coordinates, a detection without the 'bbox' key) stays with   *)
(* that line: its entry ends unmatched, and the entry of every later line  *)
(* ends as it does when the failing line is not in the text.               *)
(***************************************************************************)
\* processing parsed line s raises
Fails(data, s) ==
    \/ ~Denormalizable(s)
    \/ \E j \in DOMAIN Detections(data) : "bbox" \notin DOMAIN Detections(data)[j]

\* a line that the parser rejects and strip() keeps
Rejected == <<"#">>

LeadingBlanks(text) ==
    CHOOSE n \in 0..Len(text) :
        /\ \A i \in 1..n : text[i] = Blank
        /\ n = Len(text) \/ text[n + 1] # Blank

\* the text with the line of index idx taken out, the other lines keeping
\* their indices
WithoutLine(text, idx) ==
    [text EXCEPT ![LeadingBlanks(text) + idx + 1] = Rejected]

\* what C7 says of a call that takes the record from data to after
FailureConfined(data, text, after) ==
    LET segs == parse_segmentation_file(text)
    IN  \A k \in DOMAIN segs :
            (HasTarget(data, segs[k]) /\ Fails(data, segs[k])) =>
                /\ Unmatched(EntryOf(after, segs[k].index))
                /\ \A m \in (k + 1)..Len(segs) :
                      HasTarget(data, segs[m]) =>
                          EntryOf(after, segs[m].index)
                            = EntryOf(process_image_segmentations(data,
                                        WithoutLine(text, segs[k].index)).data,
                                      segs[m].index)

C7_FailureConfinedToLine ==
    [][(called' = "process_image_segmentations"
            /\ Enters(image_data, segmentation_text'))
         => FailureConfined(image_data, segmentation_text', image_data')]_vars

Addressed(text, idx) ==
    \E k \in DOMAIN parse_segmentation_file(text) :
        parse_segmentation_file(text)[k].index = idx

OnlyEntriesDiffer(a, b) ==
    /\ DOMAIN a = DOMAIN b
    /\ \A key \in DOMAIN a : key # "segmentation_indices_array" => a[key] = b[key]
    /\ Len(Entries(a)) = Len(Entries(b))

\* what the amended C8 says of a call that takes the record from data to after
EmptyInputKept(data, text, after) ==
    /\ text = <<>> => after = data
    /\ Detections(data) = <<>> =>
          /\ OnlyEntriesDiffer(after, data)
          /\ \A i \in DOMAIN Entries(after) :
                /\ Unmatched(Entries(after)[i])
                /\ ~Addressed(text, Entries(data)[i]["index"]) =>
                      Entries(after)[i] = Entries(data)[i]

C9_Idempotent ==
    Processed =>
        process_image_segmentations(image_data, segmentation_text).data = image_data

\* the first call has matched an entry
C9_Witness ==
    /\ Processed
    /\ \E i \in DOMAIN Entries(image_data) :
          Rewritten(i) /\ Matched(Entries(image_data)[i])

(***************************************************************************)
(* C10 as stated: the k-th parsed line, counted from 0, gets index k.      *)
(***************************************************************************)
Parsed == called = "parse_segmentation_file" /\ pc = "returned"

Accepted(line) == Len(line) >= 3 /\ line[1] \in IntLiterals

TokensIn(part) ==
    IF part = "" THEN 0 ELSE IF part = "1\t0.5" THEN 2 ELSE 1

RECURSIVE TokenCount(_)
TokenCount(line) ==
    IF line = <<>> THEN 0 ELSE TokensIn(Head(line)) + TokenCount(Tail(line))

LineParsed == called = "parse_segmentation_line"

NoneResult == [label |-> None, points_string |-> <<>>]

C11_FewTokensRejected ==
    (LineParsed /\ TokenCount(segmentation_text[1]) < 3) =>
        returned = <<NoneResult>>

(***************************************************************************)
(* C12: parse_segmentation_line never raises and answers (None, "") for a  *)
(* line whose first token is no integer; parse_segmentation_file leaves    *)
(* such a line out and returns every other valid line, with its points.    *)
(***************************************************************************)
NonIntegerLabel(line) == Len(line) >= 3 /\ line[1] \notin IntLiterals

C12_NonIntegerLabelSkipped ==
    /\ LineParsed =>
          /\ pc = "returned"
          /\ NonIntegerLabel(segmentation_text[1]) => returned = <<NoneResult>>
    /\ Parsed =>
          LET segs == returned[1]
              lead == LeadingBlanks(segmentation_text)
          IN  \A p \in DOMAIN segmentation_text :
                  /\ NonIntegerLabel(segmentation_text[p]) =>
                        ~\E k \in DOMAIN segs : segs[k].index = p - lead - 1
                  /\ Accepted(segmentation_text[p]) =>
                        \E k \in DOMAIN segs :
                            /\ segs[k].index = p - lead - 1
                            /\ segs[k].label = IntOf(segmentation_text[p][1])
                            /\ segs[k].points_string = Tail(segmentation_text[p])

\* a file with a line whose label is no integer and, after it, a valid line
\* that is returned
C12_Witness ==
    /\ Parsed
    /\ \E p, q \in DOMAIN segmentation_text :
          /\ p < q
          /\ NonIntegerLabel(segmentation_text[p])
          /\ Accepted(segmentation_text[q])
          /\ \E k \in DOMAIN returned[1] :
                returned[1][k].points_string = Tail(segmentation_text[q])

(***************************************************************************)
(* C13: every entry that parse_segmentation_file returns has points_count  *)
(* * 2 equal to the number of tokens of its points_string, and a line with *)
(* an odd number of coordinate tokens is not returned.                     *)
(***************************************************************************)
OddCoordinates(line) == Accepted(line) /\ Len(Split(Tail(line))) % 2 = 1

C13_OddLineDropped ==
    Parsed =>
        /\ \A k \in DOMAIN returned[1] :
              returned[1][k].points_count * 2
                = Len(Split(returned[1][k].points_string))
        /\ \A p \in DOMAIN segmentation_text :
              OddCoordinates(segmentation_text[p]) =>
                  ~\E k \in DOMAIN returned[1] :
                      returned[1][k].points_string = Tail(segmentation_text[p])

(***************************************************************************)
(* C14: when the record has no image size (the keys are missing, or hold   *)
(* the "" placeholder), a call denormalizes with width 1024 and height 768 *)
(* and goes on to the matching.                                            *)
(***************************************************************************)
Unset(data, key) == key \notin DOMAIN data \/ data[key] = ""

\* the points of parsed line s in pixels of the default image size
DefaultDenormalized(s) ==
    Denormalize(Split(s.points_string), <<DefaultWidth, 1>>, <<DefaultHeight, 1>>)

\* parsed line k is the first line of the text that has a join target
FirstTargeted(k) ==
    /\ HasTarget(image_data, ParsedLines[k])
    /\ \A m \in 1..(k - 1) : ~HasTarget(image_data, ParsedLines[m])

C14_DefaultDimensions ==
    (/\ Processed
     /\ ~EarlyReturn(image_data, segmentation_text)
     /\ Unset(image_data, "image_width")
     /\ Unset(image_data, "image_height")) =>
        \A k \in DOMAIN ParsedLines :
            (FirstTargeted(k) /\ Denormalizable(ParsedLines[k])) =>
                LET e == EntryOf(image_data, ParsedLines[k].index)
                IN  /\ "denormalized_segmentation_points" \in DOMAIN e
                    /\ e["denormalized_segmentation_points"]
                          = DefaultDenormalized(ParsedLines[k])
                    /\ "overlap_ratio" \in DOMAIN e

(***************************************************************************)
(* C15: a parsed line whose index no entry of the record carries is        *)
(* skipped: the call creates no entry, and it leaves the record as the     *)
(* call on the text without that line does, so the line changes nothing    *)
(* and the lines after it are processed.                                   *)
(***************************************************************************)
IndicesOf(data) == [i \in DOMAIN Entries(data) |-> Entries(data)[i]["index"]]

TargetlessSkipped(data, text, after) ==
    /\ IndicesOf(after) = IndicesOf(data)
    /\ \A k \in DOMAIN parse_segmentation_file(text) :
          ~HasTarget(data, parse_segmentation_file(text)[k]) =>
              after = process_image_segmentations(data,
                          WithoutLine(text, parse_segmentation_file(text)[k].index)).data

C15_MissingTargetSkipped ==
    [][(called' = "process_image_segmentations"
            /\ Enters(image_data, segmentation_text'))
         => TargetlessSkipped(image_data, segmentation_text', image_data')]_vars

\* a call has rewritten an entry from a line that follows a line without a
\* join target
C15_Witness ==
    \E i \in DOMAIN Entries(image_data) :
        /\ Rewritten(i)
        /\ \E k \in DOMAIN ParsedLines :
              /\ ~HasTarget(image_data, ParsedLines[k])
              /\ ParsedLines[k].index < Entries(image_data)[i]["index"]

(***************************************************************************)
(* C16: calculate_bbox_overlap_ratio returns the area that the two boxes   *)
(* share, divided by the area of the polygon box, and 0.0 when they share  *)
(* no area or the polygon box has none.  The areas are counted here in     *)
(* unit cells.                                                             *)
(***************************************************************************)
Cells(box) ==
    IF Len(box) # 4 THEN {}
    ELSE {c \in (box[1]..(box[3] - 1)) \X (box[2]..(box[4] - 1)) : TRUE}

OverlapCalled == called = "calculate_bbox_overlap_ratio"

C16_IntersectionOverPolygonArea ==
    OverlapCalled =>
        LET shared == Cardinality(Cells(boxes[1]) \cap Cells(boxes[2]))
            area == Cardinality(Cells(boxes[1]))
        IN  IF shared = 0 \/ area = 0
            THEN returned = <<Zero>>
            ELSE returned[1][1] * area = shared * returned[1][2]

\* the boxes share a part of the polygon box, and the detection box is
\* larger than the polygon box
C16_Witness ==
    /\ OverlapCalled
    /\ returned[1] # Zero
    /\ returned[1] # <<1, 1>>
    /\ Cardinality(Cells(boxes[2])) > Cardinality(Cells(boxes[1]))

(***************************************************************************)
(* C17: in every state that calls of process_image_segmentations reach,    *)
(* the overlap_ratio of every segmentation entry is at least 0 and at most *)
(* 1, also when detections hold boxes with x1 > x2 or y1 > y2.             *)
(***************************************************************************)
One == <<1, 1>>

NotNumbers(box) == \E k \in DOMAIN box : box[k] = NaN

Inverted(box) ==
    Len(box) = 4 /\ ~NotNumbers(box) /\ (box[1] > box[3] \/ box[2] > box[4])

HoldsInverted(data) ==
    \E j \in WithBBox(data) : Inverted(Detections(data)[j]["bbox"])

C17_OverlapRatioInUnitInterval ==
    \A i \in DOMAIN Entries(image_data) :
        /\ RatioGe(Get(Entries(image_data)[i], "overlap_ratio", Zero), Zero)
        /\ RatioGe(One, Get(Entries(image_data)[i], "overlap_ratio", Zero))

\* a call has gone through the detections of a record that holds a box with
\* swapped corners, for a polygon box of positive area, and has stored a
\* score
C17_Witness ==
    /\ Processed
    /\ HoldsInverted(image_data)
    /\ \E i \in DOMAIN Entries(image_data) :
          /\ Rewritten(i)
          /\ "overlap_ratio" \in DOMAIN Entries(image_data)[i]
          /\ Cardinality(Cells(Entries(image_data)[i]["denorm_points_bbox"])) > 0

(***************************************************************************)
(* C18: a detection whose bbox is "", is not four comma-separated numbers  *)
(* or has swapped corners has overlap ratio 0 with the polygon box of      *)
(* every entry, and is never the detection copied into an entry.           *)
(***************************************************************************)
Malformed(box) == Len(box) # 4 \/ NotNumbers(box) \/ Inverted(box)

C18_MalformedNeverSelected ==
    \A i \in DOMAIN Entries(image_data) :
        /\ HasBox(Entries(image_data)[i]) =>
              \A j \in WithBBox(image_data) :
                  Malformed(Detections(image_data)[j]["bbox"]) =>
                      OverlapOf(image_data, Entries(image_data)[i], j) = Zero
        /\ HasCopy(Entries(image_data)[i]) =>
              ~Malformed(Entries(image_data)[i]["bbox"])

(***************************************************************************)
(* C19: in a record whose detections all hold their keys, an entry that a  *)
(* call has rewritten, whose polygon box has positive area and lies inside *)
(* the box of a detection, is matched with overlap_ratio exactly 1 and     *)
(* carries the bbox and the species of the first such detection of the     *)
(* list.                                                                   *)
(***************************************************************************)
Contains(outer, inner) ==
    /\ Len(outer) = 4 /\ Len(inner) = 4
    /\ ~NotNumbers(outer)
    /\ outer[1] <= inner[1] /\ outer[2] <= inner[2]
    /\ inner[3] <= outer[3] /\ inner[4] <= outer[4]

PositiveArea(box) == Len(box) = 4 /\ box[1] < box[3] /\ box[2] < box[4]

\* the detections whose box holds the polygon box of entry e
Containing(data, e) ==
    {j \in WithBBox(data) : Contains(Detections(data)[j]["bbox"], e["denorm_points_bbox"])}

FirstContaining(data, e) ==
    CHOOSE j \in Containing(data, e) : \A k \in Containing(data, e) : j <= k

C19_ContainedPolygonMatched ==
    WellKeyed(image_data) =>
        \A i \in DOMAIN Entries(image_data) :
            LET e == Entries(image_data)[i]
            IN  (/\ Rewritten(i)
                 /\ PositiveArea(e["denorm_points_bbox"])
                 /\ Containing(image_data, e) # {}) =>
                    LET d == Detections(image_data)[FirstContaining(image_data, e)]
                    IN  /\ e["overlap_ratio"] = One
                        /\ e["bbox"] = d["bbox"]
                        /\ e["species"] = d["species"]

\* a call has matched an entry to the second detection of the list, whose
\* box is larger than the polygon box and holds it; the box of the first
\* detection does not hold it
C19_Witness ==
    /\ WellKeyed(image_data)
    /\ \E i \in DOMAIN Entries(image_data) :
          LET e == Entries(image_data)[i]
          IN  /\ Rewritten(i)
              /\ PositiveArea(e["denorm_points_bbox"])
              /\ Containing(image_data, e) = {2}
              /\ Detections(image_data)[1]["bbox"] # <<>>
              /\ Detections(image_data)[2]["bbox"] # e["denorm_points_bbox"]
              /\ e["species"] = Detections(image_data)[2]["species"]
              /\ e["overlap_ratio"] = One

(***************************************************************************)
(* C20: a call of process_image_segmentations leaves the detection list of *)
(* the record as it was: the 'info' key is present after the call exactly  *)
(* when it was before, and the list has the same detections in the same    *)
(* order, each with the same keys and values.                              *)
(***************************************************************************)
C20_DetectionsUnchanged ==
    [][called' = "process_image_segmentations" =>
          /\ ("info" \in DOMAIN image_data') = ("info" \in DOMAIN image_data)
          /\ Detections(image_data') = Detections(image_data)]_vars

\* a call has matched an entry to a detection of the record, whose seven
\* fields are still in the list
C20_Witness ==
    /\ Processed
    /\ \E i \in DOMAIN Entries(image_data) :
          /\ Rewritten(i)
          /\ Matched(Entries(image_data)[i])
          /\ \E j \in WithBBox(image_data) :
                /\ Detections(image_data)[j]["bbox"] = Entries(image_data)[i]["bbox"]
                /\ DOMAIN Detections(image_data)[j] =
                      {"label", "index", "species", "bbox", "yolo_bbox",
                       "segmentation", "embeddings"}

(***************************************************************************)
(* C21: normalize_coordinates and denormalize_coordinates return           *)
(* (0.0, 0.0), and do not raise, whenever the width or the height is zero  *)
(* or one of the four arguments is not a number.                           *)
(***************************************************************************)
CoordCalled == called \in {"normalize_coordinates", "denormalize_coordinates"}

IsZero(v) == IsNumber(v) /\ v.n = 0

\* the failure contract applies to the arguments of the call
FailureCase ==
    \/ \E k \in 1..4 : ~IsNumber(args[k])
    \/ IsZero(args[3])
    \/ IsZero(args[4])

C21_SharedFailureContract ==
    (CoordCalled /\ FailureCase) =>
        /\ pc = "returned"
        /\ IsZero(returned[1][1])
        /\ IsZero(returned[1][2])

(***************************************************************************)
(* C22: for numbers x, y and a width and a height above zero,              *)
(* denormalize_coordinates applied to the result of normalize_coordinates  *)
(* with the same width and height returns (x, y) within floating-point     *)
(* tolerance: each coordinate differs from the original by at most three   *)
(* units of rounding, 3 * 2^-MantissaBits, relative to the original.       *)
(***************************************************************************)
Abs(n) == IF n < 0 THEN 0 - n ELSE n

\* the last call is denormalize_coordinates on the result of
\* normalize_coordinates(x, y, w, h) for numbers x, y and w > 0, h > 0
RoundTripped ==
    /\ called = "denormalize_coordinates"
    /\ Len(args) = 5
    /\ IsNumber(args[5][1]) /\ IsNumber(args[5][2])
    /\ IsNumber(args[3]) /\ args[3].n > 0
    /\ IsNumber(args[4]) /\ args[4].n > 0

NumEq(a, b) == IsNumber(a) /\ IsNumber(b) /\ a.n * b.d = b.n * a.d

WithinTolerance(r, x) ==
    /\ IsNumber(r)
    /\ Abs(r.n * x.d - x.n * r.d) * 2^MantissaBits <= 3 * x.n * r.d

C22_RoundTripWithinTolerance ==
    RoundTripped =>
        /\ pc = "returned"
        /\ WithinTolerance(returned[1][1], args[5][1])
        /\ WithinTolerance(returned[1][2], args[5][2])

\* a round trip has given back an x that is not the original x
C22_Witness ==
    /\ RoundTripped
    /\ ~NumEq(returned[1][1], args[5][1])
    /\ WithinTolerance(returned[1][1], args[5][1])
    /\ args[3] # args[4]

\* the statement without the tolerance: the round trip returns (x, y)
C22_RoundTripExact ==
    RoundTripped =>
        /\ NumEq(returned[1][1], args[5][1])
        /\ NumEq(returned[1][2], args[5][2])

(***************************************************************************)
(* C23: two calls of process_image_segmentations on two records do not     *)
(* interact.  However their steps are interleaved, when a call has         *)
(* returned its record is the record that the call alone makes of the      *)
(* record it was given.                                                    *)
(***************************************************************************)
C23_CallsDoNotInteract ==
    \A p \in DOMAIN sessions :
        sessions[p].pc = "returned" =>
            sessions[p].record =
                process_image_segmentations(sessions[p].arg, sessions[p].text).data

\* both calls have returned, each took a step while the other was inside
\* its loop, and each has matched an entry of its record
C23_Witness ==
    /\ DOMAIN sessions = Procs
    /\ \A p \in Procs :
          /\ sessions[p].pc = "returned"
          /\ sessions[p].mixed
          /\ \E i \in DOMAIN Entries(sessions[p].record) :
                Matched(Entries(sessions[p].record)[i])
    /\ Detections(sessions[1].record) # Detections(sessions[2].record)

(***************************************************************************)
(* C24: update_paper_json_files is an upsert keyed by pdf_file_url.  For   *)
(* lists whose papers all hold the key, and an existing list whose urls    *)
(* are distinct: the result has one entry per url of the two lists; the    *)
(* entry at each position of the existing list keeps its url there and is  *)
(* the last paper of TEMP_JSON_FILES with that url, or the existing paper  *)
(* when there is none; the new urls follow, in the order in which          *)
(* TEMP_JSON_FILES first names them.                                       *)
(***************************************************************************)
Urls(papers) == {papers[i]["pdf_file_url"] : i \in DOMAIN papers}

DistinctUrls(papers) ==
    \A i, j \in DOMAIN papers :
        papers[i]["pdf_file_url"] = papers[j]["pdf_file_url"] => i = j

FirstAt(papers, u) ==
    CHOOSE i \in DOMAIN papers :
        /\ papers[i]["pdf_file_url"] = u
        /\ \A j \in 1..(i - 1) : papers[j]["pdf_file_url"] # u

LastWith(papers, u) ==
    papers[CHOOSE i \in DOMAIN papers :
              /\ papers[i]["pdf_file_url"] = u
              /\ \A j \in (i + 1)..Len(papers) : papers[j]["pdf_file_url"] # u]

\* the last call is update_paper_json_files on papers that hold their key
Upserted ==
    /\ called = "update_paper_json_files"
    /\ HasUrl(args[1]) /\ HasUrl(args[2])

OnePerUrl ==
    /\ DistinctUrls(returned[1])
    /\ Urls(returned[1]) = Urls(args[1]) \cup Urls(args[2])

ReplacedInPlace ==
    \A i \in DOMAIN args[1] :
        /\ i \in DOMAIN returned[1]
        /\ returned[1][i] =
              IF args[1][i]["pdf_file_url"] \in Urls(args[2])
              THEN LastWith(args[2], args[1][i]["pdf_file_url"])
              ELSE args[1][i]

NewAppended ==
    \A i \in (Len(args[1]) + 1)..Len(returned[1]) :
        /\ returned[1][i]["pdf_file_url"] \notin Urls(args[1])
        /\ returned[1][i] = LastWith(args[2], returned[1][i]["pdf_file_url"])
        /\ \A j \in (i + 1)..Len(returned[1]) :
              FirstAt(args[2], returned[1][i]["pdf_file_url"])
                < FirstAt(args[2], returned[1][j]["pdf_file_url"])

C24_UpsertOfDistinctUrls ==
    (Upserted /\ DistinctUrls(args[1])) =>
        /\ pc = "returned"
        /\ OnePerUrl
        /\ ReplacedInPlace
        /\ NewAppended

\* a call has replaced one paper in place, kept another and appended a
\* third, from a TEMP_JSON_FILES that names one url twice
C24_Witness ==
    /\ Upserted
    /\ DistinctUrls(args[1])
    /\ Len(args[1]) = 2
    /\ ~DistinctUrls(args[2])
    /\ \E i \in DOMAIN args[1] :
          /\ args[1][i]["pdf_file_url"] \in Urls(args[2])
          /\ returned[1][i] # args[1][i]

\* the statement for every existing list: also an existing paper that has
\* no counterpart in TEMP_JSON_FILES is in the result, unchanged
C24_Upsert ==
    Upserted =>
        /\ OnePerUrl
        /\ \A i \in DOMAIN args[1] :
              args[1][i]["pdf_file_url"] \notin Urls(args[2]) =>
                  \E j \in DOMAIN returned[1] : returned[1][j] = args[1][i]

(***************************************************************************)
(* C25: a call of process_image_segmentations adds no segmentation entry   *)
(* and removes none, and leaves the index and the label of every entry as  *)
(* they were, whatever lines the text holds: the array has the same        *)
(* length after the call, and the same index and label at every position.  *)
(***************************************************************************)
C25_EntriesKeepIdentity ==
    [][called' = "process_image_segmentations" =>
          /\ ("segmentation_indices_array" \in DOMAIN image_data')
                = ("segmentation_indices_array" \in DOMAIN image_data)
          /\ Len(Entries(image_data')) = Len(Entries(image_data))
          /\ \A i \in DOMAIN Entries(image_data) :
                /\ Entries(image_data')[i]["index"] = Entries(image_data)[i]["index"]
                /\ Entries(image_data')[i]["label"] = Entries(image_data)[i]["label"]]_vars

\* a call has rewritten an entry from a text that also holds a parsed line
\* whose index no entry of the record has
C25_Witness ==
    /\ Entered
    /\ \E k \in DOMAIN ParsedLines : ~HasTarget(image_data, ParsedLines[k])
    /\ \E i \in DOMAIN Entries(image_data) : Rewritten(i)

(***************************************************************************)
(* C26: find_matching_bbox and the matching loop of                        *)
(* process_image_segmentations select the same detection for the same      *)
(* polygon, detection list and image size, when the boxes of the           *)
(* detections hold numbers.                                                *)
(***************************************************************************)

\* the detection that lines 249-266 of process_image_segmentations select
\* for the polygon of these coordinates, None when they select none
LoopSelection(points_string, bboxes, image_width, image_height) ==
    FindResult(bboxes,
        [exc |-> FALSE,
         best_bbox |->
            MatchLoop(get_bbox_from_denormalized_points(
                          Denormalize(Split(points_string), image_width, image_height)),
                      bboxes, 1, Zero, 0).matching_bbox])

C26_SameSelection ==
    (/\ called = "find_matching_bbox"
     /\ DenormalizeOk(Split(Tail(segmentation_text[1])))
     /\ \A j \in WithBBox(image_data) : ~NotNumbers(Detections(image_data)[j]["bbox"])) =>
        returned[1] =
            LoopSelection(Tail(segmentation_text[1]), Detections(image_data),
                          Dimension(image_data, "image_width", DefaultWidth),
                          Dimension(image_data, "image_height", DefaultHeight))

(***************************************************************************)
(* C27: save_labels called with an image_index outside                     *)
(* [0, len(DIATOMS_DATA)) returns False without raising, does not call     *)
(* update_and_save_papers, and leaves DIATOMS_DATA, PAPER_JSON_FILES and   *)
(* the stored file as they were.                                           *)
(***************************************************************************)
SaveLabelsActed == called' = "save_labels"

OutsideRange(image_index, data) == image_index < 0 \/ Len(data) <= image_index

ReturnedFalse == [returned |-> FALSE, raised |-> FALSE, saved |-> FALSE]

C27_OutOfRangeReturnsFalse ==
    [][(SaveLabelsActed /\ OutsideRange(args'[1], DIATOMS_DATA)) =>
          /\ returned'[1] = ReturnedFalse
          /\ DIATOMS_DATA' = DIATOMS_DATA
          /\ PAPER_JSON_FILES' = PAPER_JSON_FILES
          /\ blob' = blob]_vars

\* a call with index -1 and labels that differ from those of the last entry
C27_Witness ==
    /\ called = "save_labels"
    /\ args[1] = -1
    /\ DIATOMS_DATA # <<>>
    /\ PAPER_JSON_FILES # <<>>
    /\ DIATOMS_DATA[Len(DIATOMS_DATA)]["info"] # args[2]
    /\ returned[1] = ReturnedFalse

(***************************************************************************)
(* C28: when update_and_save_papers returns False inside save_labels,      *)
(* save_labels raises and DIATOMS_DATA and PAPER_JSON_FILES hold the same  *)
(* contents as before the call.                                            *)
(***************************************************************************)
PersistFailed == SaveLabelsActed /\ returned'[1].saved /\ ~returned'[1].returned

\* what the caches hold, whichever objects hold it
Contents(papers, data) == <<json_dumps(papers, data), data>>

C28_FailedSaveLeavesCaches ==
    [][PersistFailed =>
          /\ returned'[1].raised
          /\ Contents(PAPER_JSON_FILES', DIATOMS_DATA') = Contents(PAPER_JSON_FILES, DIATOMS_DATA)]_vars

(***************************************************************************)
(* C29: provided the image_url values of DIATOMS_DATA are distinct, after  *)
(* a save_labels call that returns True every paper of PAPER_JSON_FILES    *)
(* whose diatoms_data.image_url equals DIATOMS_DATA[i].image_url holds the *)
(* info of DIATOMS_DATA[i], and the call leaves the info of every entry    *)
(* of DIATOMS_DATA other than the one at image_index as it was.            *)
(***************************************************************************)
DistinctImageUrls(data) ==
    \A i, j \in DOMAIN data : data[i]["image_url"] = data[j]["image_url"] => i = j

DataIn(papers, data, k) == Deref(ParsedPaper(papers[k])["diatoms_data"], data)

InSync(papers, data) ==
    \A k \in DOMAIN papers : HasData(papers[k]) =>
        \A i \in DOMAIN data :
            DataIn(papers, data, k)["image_url"] = data[i]["image_url"] =>
                DataIn(papers, data, k)["info"] = data[i]["info"]

SavedTrue == SaveLabelsActed /\ returned'[1].returned

C29_PapersFollowDiatomsData ==
    [][(SavedTrue /\ DistinctImageUrls(DIATOMS_DATA)) =>
          /\ InSync(PAPER_JSON_FILES', DIATOMS_DATA')
          /\ Len(DIATOMS_DATA') = Len(DIATOMS_DATA)
          /\ \A j \in DOMAIN DIATOMS_DATA :
                j # args'[1] + 1 => DIATOMS_DATA'[j]["info"] = DIATOMS_DATA[j]["info"]]_vars

\* a second successful save, of new labels for the entry without image_url,
\* after a save that made a paper share its diatoms_data with DIATOMS_DATA
C29_Witness ==
    /\ called = "save_labels"
    /\ returned[1].returned
    /\ Len(DIATOMS_DATA) = 2
    /\ DistinctImageUrls(DIATOMS_DATA)
    /\ \E k \in DOMAIN PAPER_JSON_FILES :
          HasData(PAPER_JSON_FILES[k]) /\ IsRef(PAPER_JSON_FILES[k]["diatoms_data"])
    /\ \E k \in DOMAIN PAPER_JSON_FILES :
          /\ HasData(PAPER_JSON_FILES[k])
          /\ ~IsRef(PAPER_JSON_FILES[k]["diatoms_data"])
          /\ PAPER_JSON_FILES[k]["diatoms_data"]["image_url"] = ""
          /\ PAPER_JSON_FILES[k]["diatoms_data"]["info"] = args[2]
          /\ args[2] # <<>>
    /\ DIATOMS_DATA[args[1] + 1]["image_url"] = ""
    /\ DIATOMS_DATA[1]["info"] # DIATOMS_DATA[2]["info"]

(***************************************************************************)
(* C30: GET /api/diatoms with a non-empty DIATOMS_DATA answers             *)
(* successfully for every requested index: current_index is the index      *)
(* clamped into [0, total_images - 1], total_images is len(DIATOMS_DATA)   *)
(* and data is DIATOMS_DATA[current_index].                                *)
(***************************************************************************)
Clamped(image_index, total_images) ==
    IF image_index < 0 THEN 0
    ELSE IF image_index > total_images - 1 THEN total_images - 1
    ELSE image_index

C30_GetDiatomsAnswers ==
    (called = "get_diatoms" /\ DIATOMS_DATA # <<>>) =>
        /\ returned[1].status = 200
        /\ returned[1].current_index = Clamped(args[1], Len(DIATOMS_DATA))
        /\ returned[1].total_images = Len(DIATOMS_DATA)
        /\ returned[1].data = DIATOMS_DATA[returned[1].current_index + 1]

====
